---- MODULE Spec2Model ----
(***************************************************************************)
(* RIPS record generation: the RipsBuilder object of                       *)
(* src/src/rips_generator/rips_builder.py, the validate_rips function of   *)
(* src/src/rips_generator/rips_validator.py, the invoice lines read by     *)
(* invoice_parser.py and the run of scripts/generate_rips.py.              *)
(*                                                                         *)
(* Representation.                                                         *)
(*   - A Python str is a sequence of one-character strings, so that        *)
(*     str.upper(), str.lower(), str.replace, str.strip(), str.split(" ")  *)
(*     and `in` are computed character by character.  None (of an          *)
(*     Optional[str]) is the value None below, which is no sequence of     *)
(*     characters.                                                         *)
(*   - A Decimal is an integer number of hundredths (Decimal("1.00") is    *)
(*     100); an Optional[Decimal] is <<>> for None and <<v>> for v.  A     *)
(*     quantity is a whole number of units.                                *)
(*   - A datetime is <<year, month, day, hour>>, None when absent.         *)
(*   - An optional object (annex_data, the user record) and an             *)
(*     Optional[int] are <<>> for None and <<value>> otherwise.            *)
(*   - A call either returns or raises: `raised` is "none" or the name of  *)
(*     the exception.                                                      *)
(*   - Records carry the document identity, the codes, the diagnosis, the  *)
(*     values, the names and the age: the fields the builder resolves and  *)
(*     the validator reads.                                                *)
(***************************************************************************)
EXTENDS Integers, Sequences, FiniteSets

VARIABLES self, call, first, args, messages, tables

vars == <<self, call, first, args, messages, tables>>

(***************************************************************************)
(* Python values                                                           *)
(***************************************************************************)
None == <<"None">>

Truthy(s) == s # None /\ s # <<>>

\* a blank text: absent or empty
Blank(s) == s = None \/ s = <<>>

\* Python's `a or b` on Optional[str]
Or(a, b) == IF Truthy(a) THEN a ELSE b

Some(v) == <<v>>

IsNone(o) == o = <<>>

\* Python's `d or e` on Optional[Decimal]: None and Decimal("0") are falsy
DecOr(d, e) == IF d # <<>> /\ d[1] # 0 THEN d ELSE e

UpperChar(c) ==
    CASE c = "c" -> "C"
      [] c = "e" -> "E"
      [] c = "i" -> "I"
      [] c = "t" -> "T"
      [] OTHER -> c

\* str.upper()
Upper(s) == [i \in 1..Len(s) |-> UpperChar(s[i])]

IsNotSpace(c) == c # " "

\* str.replace(" ", "")
RemoveSpaces(s) == SelectSeq(s, IsNotSpace)

Abs(x) == IF x < 0 THEN -x ELSE x

UpperLetters ==
    <<"A", "B", "C", "D", "E", "F", "G", "H", "I", "J", "K", "L", "M", "N", "O", "P", "Q", "R", "S", "T", "U", "V", "W", "X", "Y", "Z", "Á", "É", "Í", "Ó", "Ú", "Ñ">>

LowerLetters ==
    <<"a", "b", "c", "d", "e", "f", "g", "h", "i", "j", "k", "l", "m", "n", "o", "p", "q", "r", "s", "t", "u", "v", "w", "x", "y", "z", "á", "é", "í", "ó", "ú", "ñ">>

LowerChar(c) ==
    IF \E i \in 1..Len(UpperLetters) : UpperLetters[i] = c
    THEN LowerLetters[CHOOSE i \in 1..Len(UpperLetters) : UpperLetters[i] = c]
    ELSE c

\* str.lower()
Lower(s) == [i \in 1..Len(s) |-> LowerChar(s[i])]

\* `key in text` on two str
Contains(text, key) ==
    \E i \in 0..(Len(text) - Len(key)) : SubSeq(text, i + 1, i + Len(key)) = key

Tab == "\t"

\* the characters str.strip() removes
IsWhitespace(c) == c = " " \/ c = Tab

RECURSIVE ReplaceDoubleSpace(_)
\* str.replace("  ", " "): one pass from the left, no overlap
ReplaceDoubleSpace(t) ==
    IF Len(t) < 2 THEN t
    ELSE IF t[1] = " " /\ t[2] = " "
    THEN <<" ">> \o ReplaceDoubleSpace(SubSeq(t, 3, Len(t)))
    ELSE <<t[1]>> \o ReplaceDoubleSpace(Tail(t))

RECURSIVE SplitSpace(_, _)
\* str.split(" "): the pieces between single space characters, empty pieces kept;
\* piece is the piece being read
SplitSpace(t, piece) ==
    IF t = <<>> THEN <<piece>>
    ELSE IF Head(t) = " " THEN <<piece>> \o SplitSpace(Tail(t), <<>>)
    ELSE SplitSpace(Tail(t), Append(piece, Head(t)))

RECURSIVE JoinSpace(_)
\* " ".join(tokens)
JoinSpace(tokens) ==
    IF tokens = <<>> THEN <<>>
    ELSE IF Len(tokens) = 1 THEN tokens[1]
    ELSE tokens[1] \o <<" ">> \o JoinSpace(Tail(tokens))

\* a datetime is <<year, month, day, hour>>; `a > b` on two datetimes
After(a, b) ==
    \/ a[1] > b[1]
    \/ a[1] = b[1] /\ a[2] > b[2]
    \/ a[1] = b[1] /\ a[2] = b[2] /\ a[3] > b[3]
    \/ a[1] = b[1] /\ a[2] = b[2] /\ a[3] = b[3] /\ a[4] > b[4]

(***************************************************************************)
(* rips_validator.py                                                       *)
(***************************************************************************)
DECIMAL_ZERO == 0

\* Decimal("1.00"), in hundredths
TOLERANCE == 100

ValidationMessage(severity, code, detail) ==
    [severity |-> severity, code |-> code, detail |-> detail]

checkMutant(record_type, doc_type, doc_number, target_doc_type, target_doc_number) ==
    IF ~Truthy(doc_number)
    THEN << <<record_type, "documento vacio">> >>
    ELSE (IF doc_number # Or(target_doc_number, <<>>)
          THEN << <<record_type, "documento", doc_number, target_doc_number>> >>
          ELSE <<>>)
         \o
         (IF Truthy(target_doc_type) /\ Truthy(doc_type) /\ doc_type # target_doc_type
          THEN << <<record_type, "tipo", doc_type, target_doc_type>> >>
          ELSE <<>>)

\* the closure check() of _validate_documents: the entries it appends to mismatches
check(record_type, doc_type, doc_number, target_doc_type, target_doc_number) ==
    IF ~Truthy(doc_number)
    THEN << <<record_type, "documento vacio">> >>
    ELSE (IF Truthy(target_doc_number) /\ doc_number # target_doc_number
          THEN << <<record_type, "documento", doc_number, target_doc_number>> >>
          ELSE <<>>)
         \o
         (IF Truthy(target_doc_type) /\ Truthy(doc_type) /\ doc_type # target_doc_type
          THEN << <<record_type, "tipo", doc_type, target_doc_type>> >>
          ELSE <<>>)

RECURSIVE check_all(_, _, _, _)
\* one `for record in <records>: check(...)` loop of _validate_documents
check_all(record_type, records, target_doc_type, target_doc_number) ==
    IF records = <<>>
    THEN <<>>
    ELSE check(record_type, Head(records).document_type, Head(records).document_number,
               target_doc_type, target_doc_number)
         \o check_all(record_type, Tail(records), target_doc_type, target_doc_number)

_validate_documents(target_doc_type, target_doc_number, procedures, consultations, medications, other_services, msgs) ==
    LET mismatches ==
            check_all("AP", procedures, target_doc_type, target_doc_number)
            \o check_all("AC", consultations, target_doc_type, target_doc_number)
            \o check_all("AM", medications, target_doc_type, target_doc_number)
            \o check_all("AT", other_services, target_doc_type, target_doc_number)
    IN  IF mismatches # <<>>
        THEN Append(msgs, ValidationMessage("WARNING", "DOC001", mismatches))
        ELSE msgs

RECURSIVE safe_sum(_)
\* safe_sum of _validate_totals: None values are skipped
safe_sum(values) ==
    IF values = <<>>
    THEN DECIMAL_ZERO
    ELSE (IF IsNone(Head(values)) THEN 0 ELSE Head(values)[1]) + safe_sum(Tail(values))

NetValues(records) == [i \in 1..Len(records) |-> records[i].net_value]

TotalValues(records) == [i \in 1..Len(records) |-> records[i].total_value]

PositiveMutant(total) == total # DECIMAL_ZERO

\* the test `total > DECIMAL_ZERO` of _validate_totals
Positive(total) == total > DECIMAL_ZERO

ExceedsMutant(difference) == Abs(difference) >= TOLERANCE

\* the test `difference.copy_abs() > TOLERANCE` of _validate_totals
Exceeds(difference) == Abs(difference) > TOLERANCE

DifferenceMutant(invoice, calculated_total) ==
    calculated_total - DecOr(invoice.total_value, Some(DECIMAL_ZERO))[1]

\* `difference = (invoice.total_value or DECIMAL_ZERO) - calculated_total`
Difference(invoice, calculated_total) ==
    DecOr(invoice.total_value, Some(DECIMAL_ZERO))[1] - calculated_total

_validate_totals(invoice, procedures, consultations, medications, other_services, msgs) ==
    LET total_procedures == safe_sum(NetValues(procedures))
        total_consultations == safe_sum(NetValues(consultations))
        total_medications == safe_sum(TotalValues(medications))
        total_other_services == safe_sum(TotalValues(other_services))
        extras_total == total_consultations + total_medications + total_other_services
        calculated_total ==
            IF Positive(total_procedures) THEN total_procedures ELSE extras_total
        msgs1 ==
            IF Positive(total_procedures) /\ Positive(extras_total)
            THEN Append(msgs, ValidationMessage("INFO", "TOT002", <<>>))
            ELSE msgs
        difference == Difference(invoice, calculated_total)
    IN  IF Exceeds(difference)
        THEN Append(msgs1, ValidationMessage("WARNING", "TOT001",
                            <<invoice.total_value, calculated_total, difference>>))
        ELSE msgs1

RECURSIVE missing_diagnosesMutant(_, _, _, _)
missing_diagnosesMutant(record_type, records, field, idx) ==
    IF idx > Len(records)
    THEN <<>>
    ELSE (IF ~Truthy(records[idx][field]) THEN << <<record_type, idx - 1>> >> ELSE <<>>)
         \o missing_diagnosesMutant(record_type, records, field, idx + 1)

RECURSIVE missing_diagnoses(_, _, _, _)
\* one `for idx, record in enumerate(<records>, start=1)` loop of _validate_diagnoses;
\* field is the record's diagnosis attribute
missing_diagnoses(record_type, records, field, idx) ==
    IF idx > Len(records)
    THEN <<>>
    ELSE (IF ~Truthy(records[idx][field]) THEN << <<record_type, idx>> >> ELSE <<>>)
         \o missing_diagnoses(record_type, records, field, idx + 1)

_validate_diagnoses(procedures, consultations, medications, other_services, msgs) ==
    LET missing ==
            missing_diagnoses("AP", procedures, "diagnosis_code", 1)
            \o missing_diagnoses("AC", consultations, "principal_diagnosis", 1)
            \o missing_diagnoses("AM", medications, "principal_diagnosis", 1)
            \o missing_diagnoses("AT", other_services, "principal_diagnosis", 1)
    IN  IF missing # <<>>
        THEN Append(msgs, ValidationMessage("ERROR", "DX001", missing))
        ELSE msgs

RECURSIVE missing_cupsMutant(_, _)
missing_cupsMutant(procedures, idx) ==
    IF idx > Len(procedures)
    THEN <<>>
    ELSE (IF ~Truthy(procedures[idx].cups_code) THEN <<idx - 1>> ELSE <<>>)
         \o missing_cupsMutant(procedures, idx + 1)

RECURSIVE missing_cups(_, _)
\* the list comprehension of _validate_cups
missing_cups(procedures, idx) ==
    IF idx > Len(procedures)
    THEN <<>>
    ELSE (IF ~Truthy(procedures[idx].cups_code) THEN <<idx>> ELSE <<>>)
         \o missing_cups(procedures, idx + 1)

_validate_cupsMutant(procedures, msgs) ==
    IF msgs # <<>> THEN msgs
    ELSE IF missing_cups(procedures, 1) # <<>>
         THEN Append(msgs, ValidationMessage("ERROR", "CUPS001", missing_cups(procedures, 1)))
         ELSE msgs

_validate_cups(procedures, msgs) ==
    LET missing == missing_cups(procedures, 1)
    IN  IF missing # <<>>
        THEN Append(msgs, ValidationMessage("ERROR", "CUPS001", missing))
        ELSE msgs

clean_messageMutant(msgs) == Append(msgs, ValidationMessage("INFO", "VAL000", <<>>))

\* the closing `if not messages: messages.append(VAL000)` of validate_rips
clean_message(msgs) ==
    IF msgs = <<>>
    THEN <<ValidationMessage("INFO", "VAL000", <<>>)>>
    ELSE msgs

validate_rips(invoice, user, procedures, consultations, medications, other_services) ==
    LET target_doc_type ==
            IF user # <<>> THEN Or(user[1].document_type, invoice.document_type)
            ELSE invoice.document_type
        target_doc_number ==
            IF user # <<>> THEN Or(user[1].document_number, invoice.document_number)
            ELSE invoice.document_number
        m1 == _validate_documents(target_doc_type, target_doc_number, procedures,
                                  consultations, medications, other_services, <<>>)
        m2 == _validate_totals(invoice, procedures, consultations, medications,
                               other_services, m1)
        m3 == _validate_diagnoses(procedures, consultations, medications,
                                  other_services, m2)
        m4 == _validate_cups(procedures, m3)
    IN  clean_message(m4)

(***************************************************************************)
(* Inputs of validate_rips                                                 *)
(***************************************************************************)
\* largest number of records handed to one validate_rips call
MaxRecords == 2

CC == <<"C", "C">>

TI == <<"T", "I">>

Doc12345678 == <<"1", "2", "3", "4", "5", "6", "7", "8">>

Doc999 == <<"9", "9", "9">>

A09 == <<"A", "0", "9">>

Cups890201 == <<"8", "9", "0", "2", "0", "1">>

RecordTypes == {"AP", "AC", "AM", "AT"}

\* a record of one of the four sets, tagged with the set it belongs to
Item(kind, t, n, v, dx, cups) ==
    [kind |-> kind, document_type |-> t, document_number |-> n, value |-> v,
     diagnosis |-> dx, cups_code |-> cups]

RipsProcedureRecord(it) ==
    [document_type |-> it.document_type, document_number |-> it.document_number,
     cups_code |-> it.cups_code, diagnosis_code |-> it.diagnosis,
     net_value |-> it.value]

RipsConsultationRecord(it) ==
    [document_type |-> it.document_type, document_number |-> it.document_number,
     principal_diagnosis |-> it.diagnosis, net_value |-> it.value]

RipsMedicationRecord(it) ==
    [document_type |-> it.document_type, document_number |-> it.document_number,
     principal_diagnosis |-> it.diagnosis, total_value |-> it.value]

RipsOtherServiceRecord(it) ==
    [document_type |-> it.document_type, document_number |-> it.document_number,
     principal_diagnosis |-> it.diagnosis, total_value |-> it.value]

RipsInvoiceRecord(t, n, total) ==
    [document_type |-> t, document_number |-> n, total_value |-> total]

RipsUserRecord(t, n) == [document_type |-> t, document_number |-> n]

OfKind(batch, kind) == SelectSeq(batch, LAMBDA it : it.kind = kind)

\* the six arguments of one validate_rips call, the four sets taken from a batch of
\* tagged records in their order
Arguments(invoice, user, batch) ==
    [invoice |-> invoice,
     user |-> user,
     procedures |->
        [i \in 1..Len(OfKind(batch, "AP")) |-> RipsProcedureRecord(OfKind(batch, "AP")[i])],
     consultations |->
        [i \in 1..Len(OfKind(batch, "AC")) |-> RipsConsultationRecord(OfKind(batch, "AC")[i])],
     medications |->
        [i \in 1..Len(OfKind(batch, "AM")) |-> RipsMedicationRecord(OfKind(batch, "AM")[i])],
     other_services |->
        [i \in 1..Len(OfKind(batch, "AT")) |-> RipsOtherServiceRecord(OfKind(batch, "AT")[i])]]

NoArguments == Arguments(RipsInvoiceRecord(None, None, <<>>), <<>>, <<>>)

\* records that differ in their document identity only
IdentityItems ==
    {Item(k, id[1], id[2], Some(0), A09, Cups890201) :
        k \in RecordTypes,
        id \in {<<CC, Doc12345678>>, <<TI, Doc12345678>>, <<CC, Doc999>>,
                <<CC, <<>> >>, << <<>>, Doc12345678>>}}

IdentityInvoices ==
    {RipsInvoiceRecord(inv[1], inv[2], Some(0)) :
        inv \in {<<None, None>>, <<CC, Doc12345678>>, <<TI, <<>> >>}}

IdentityUsers ==
    {<<>>, <<RipsUserRecord(CC, Doc12345678)>>, <<RipsUserRecord(<<>>, Doc999)>>}

\* records that differ in their value only; 10000000 and 10005000 are the totals
\* 100000 and 100050
AmountItems ==
    {Item(k, CC, Doc12345678, v, A09, Cups890201) :
        k \in RecordTypes,
        v \in {<<>>, Some(-10000), Some(0), Some(9899), Some(9900), Some(10005000)}}

AmountInvoices ==
    {RipsInvoiceRecord(CC, Doc12345678, total) :
        total \in {<<>>, Some(0), Some(10000), Some(10000000)}}

\* records in which the condition of each rule is met or not, in every combination;
\* a missing diagnosis is absent in a procedure record and empty in the others
RuleItems ==
    {Item("AP", CC, n, v, dx, cups) :
        n \in {Doc12345678, <<>>}, v \in {Some(0), Some(10000)}, dx \in {A09, None},
        cups \in {Cups890201, <<>>}}
    \cup
    {Item(k, CC, n, v, dx, None) :
        k \in RecordTypes \ {"AP"},
        n \in {Doc12345678, <<>>}, v \in {Some(0), Some(10000)}, dx \in {A09, <<>>}}

RuleInvoices ==
    {RipsInvoiceRecord(CC, Doc12345678, total) : total \in {Some(0), Some(10000)}}

\* the inputs of one validate_rips call: an invoice record and a user record of one
\* of the three families, and up to MaxRecords records of the same family
InitArguments ==
    \E k \in 0..MaxRecords :
        \/ \E invoice \in IdentityInvoices, user \in IdentityUsers,
              batch \in [1..k -> IdentityItems] :
                args = Arguments(invoice, user, batch)
        \/ \E invoice \in AmountInvoices, batch \in [1..k -> AmountItems] :
                args = Arguments(invoice, <<>>, batch)
        \/ \E invoice \in RuleInvoices, batch \in [1..k -> RuleItems] :
                args = Arguments(invoice, <<>>, batch)

(***************************************************************************)
(* validate_rips as a call: its arguments are fixed, it returns its list   *)
(***************************************************************************)
NoMemo == [type |-> FALSE, number |-> FALSE]

NoCall == [op |-> "none", ret |-> <<>>, raised |-> "none", memo |-> NoMemo]

NoBuilder == <<>>

InitValidator ==
    /\ self = NoBuilder
    /\ call = NoCall
    /\ first = <<>>
    /\ InitArguments
    /\ messages = <<>>
    /\ tables = <<>>

ValidateRips ==
    /\ call.op = "none"
    /\ messages' = validate_rips(args.invoice, args.user, args.procedures,
                                 args.consultations, args.medications,
                                 args.other_services)
    /\ call' = [op |-> "validate_rips", ret |-> <<>>, raised |-> "none", memo |-> NoMemo]
    /\ UNCHANGED <<self, first, args, tables>>

NextValidator == ValidateRips

SpecValidator == InitValidator /\ [][NextValidator]_vars

(***************************************************************************)
(* rips_builder.py: the RipsBuilder object                                 *)
(*   self.invoice, self.patient, self.annex_data are the dataclass fields; *)
(*   self._resolved_document_type and self._resolved_document_number are   *)
(*   the memo attributes, None while the attribute is not set.             *)
(***************************************************************************)
\* the dict ATTENTION_TYPE_MAP, its items in insertion order
ATTENTION_TYPE_MAP ==
    <<<<<<"u", "r", "g", "e", "n", "c", "i", "a", "s">>,
        <<"0", "2">>>>,
      <<<<"c", "o", "n", "s", "u", "l", "t", "a", " ", "e", "x", "t", "e", "r", "n", "a">>,
        <<"0", "1">>>>,
      <<<<"c", "o", "n", "s", "u", "l", "t", "a">>,
        <<"0", "1">>>>,
      <<<<"h", "o", "s", "p", "i", "t", "a", "l", "i", "z", "a", "c", "i", "ó", "n">>,
        <<"0", "4">>>>,
      <<<<"h", "o", "s", "p", "i", "t", "a", "l", "i", "z", "a", "c", "i", "o", "n">>,
        <<"0", "4">>>>,
      <<<<"v", "a", "c", "u", "n", "a", "c", "i", "o", "n">>,
        <<"1", "3">>>>>>

\* the dict SERVICE_PURPOSE_MAP, its items in insertion order
SERVICE_PURPOSE_MAP ==
    <<<<<<"c", "o", "n", "s", "u", "l", "t", "a", " ", "d", "e", " ", "p", "r", "i", "m", "e", "r", "a", " ", "v", "e", "z">>,
        <<"0", "1">>>>,
      <<<<"c", "o", "n", "s", "u", "l", "t", "a", " ", "d", "e", " ", "c", "o", "n", "t", "r", "o", "l">>,
        <<"0", "2">>>>,
      <<<<"p", "r", "o", "g", "r", "a", "m", "a", " ", "p", "f">>,
        <<"0", "3">>>>,
      <<<<"d", "e", "t", "e", "c", "c", "i", "ó", "n">>,
        <<"0", "4">>>>,
      <<<<"d", "e", "t", "e", "c", "c", "i", "o", "n">>,
        <<"0", "4">>>>,
      <<<<"c", "o", "n", "s", "u", "l", "t", "a", " ", "d", "e", " ", "u", "r", "g", "e", "n", "c", "i", "a", "s">>,
        <<"1", "0">>>>,
      <<<<"n", "o", " ", "a", "p", "l", "i", "c", "a">>,
        <<"1", "4">>>>,
      <<<<"v", "a", "c", "u", "n", "a", "c", "i", "o", "n">>,
        <<"1", "4">>>>,
      <<<<"t", "e", "r", "a", "p", "i", "a">>,
        <<"0", "7">>>>>>

DOCUMENT_TYPE_DEFAULT == CC

RECURSIVE FirstTruthyMutant(_)
FirstTruthyMutant(candidates) ==
    IF candidates = <<>> THEN None
    ELSE IF FirstTruthyMutant(Tail(candidates)) # None
    THEN FirstTruthyMutant(Tail(candidates))
    ELSE IF Truthy(Head(candidates)) THEN Head(candidates)
    ELSE None

RECURSIVE FirstTruthy(_)
\* `for candidate in candidates: if candidate:` -- the first truthy candidate, else None
FirstTruthy(candidates) ==
    IF candidates = <<>> THEN None
    ELSE IF Truthy(Head(candidates)) THEN Head(candidates)
    ELSE FirstTruthy(Tail(candidates))

AnnexPatientField(s, field) ==
    IF s.annex_data # <<>> THEN s.annex_data[1].patient[field] ELSE None

\* a call of a method that returns: the value it returns and the object after it
Return(ret, s) == [ret |-> ret, self |-> s, raised |-> "none"]

\* a call of a method that raises: the exception and the object after it
Raise(exception, s) == [ret |-> <<>>, self |-> s, raised |-> exception]

resolve_document_typeMutant(s) ==
    LET cached == s._resolved_document_type
        candidate == FirstTruthy(<<s.patient.document_type,
                                   s.patient.admission_document_type,
                                   AnnexPatientField(s, "document_type"),
                                   DOCUMENT_TYPE_DEFAULT>>)
    IN  IF Truthy(cached) THEN Return(cached, s)
        ELSE Return(Upper(candidate), [s EXCEPT !._resolved_document_type = candidate])

resolve_document_type(s) ==
    LET cached == s._resolved_document_type
        candidate == FirstTruthy(<<s.patient.document_type,
                                   s.patient.admission_document_type,
                                   AnnexPatientField(s, "document_type"),
                                   DOCUMENT_TYPE_DEFAULT>>)
        result == Upper(candidate)
    IN  IF Truthy(cached) THEN Return(cached, s)
        ELSE Return(result, [s EXCEPT !._resolved_document_type = result])

resolve_document_numberMutant(s) ==
    LET cached == s._resolved_document_type
        candidate == FirstTruthy(<<s.patient.document_number,
                                   s.patient.admission_document_number,
                                   AnnexPatientField(s, "document_number")>>)
    IN  IF cached # None THEN Return(cached, s)
        ELSE IF candidate # None
        THEN Return(RemoveSpaces(candidate),
                    [s EXCEPT !._resolved_document_number = RemoveSpaces(candidate)])
        ELSE Return(<<>>, [s EXCEPT !._resolved_document_number = <<>>])

resolve_document_number(s) ==
    LET cached == s._resolved_document_number
        candidate == FirstTruthy(<<s.patient.document_number,
                                   s.patient.admission_document_number,
                                   AnnexPatientField(s, "document_number")>>)
    IN  IF cached # None THEN Return(cached, s)
        ELSE IF candidate # None
        THEN Return(RemoveSpaces(candidate),
                    [s EXCEPT !._resolved_document_number = RemoveSpaces(candidate)])
        ELSE Return(<<>>, [s EXCEPT !._resolved_document_number = <<>>])

\* the object after resolve_document_type() and then resolve_document_number()
Resolved(s) == resolve_document_number(resolve_document_type(s).self).self

\* Python's `a or b` on Decimal: Decimal("0") is falsy
AmountOr(a, b) == IF a # 0 THEN a ELSE b

RECURSIVE lookup(_, _)
\* `for key, value in <MAP>.items(): if key in raw_norm: return value`, else None
lookup(items, raw_norm) ==
    IF items = <<>> THEN None
    ELSE IF Contains(raw_norm, Head(items)[1]) THEN Head(items)[2]
    ELSE lookup(Tail(items), raw_norm)

_map_attention_type(raw) ==
    IF ~Truthy(raw) THEN None ELSE lookup(ATTENTION_TYPE_MAP, Lower(raw))

_map_service_purpose(raw) ==
    IF ~Truthy(raw) THEN None ELSE lookup(SERVICE_PURPOSE_MAP, Lower(raw))

_map_consultation_purpose(raw) == _map_service_purpose(raw)

build_procedure_recordsMutant(s) ==
    LET lines == SelectSeq(s.invoice.lines, LAMBDA line : Truthy(line.cups_code))
    IN  Return([i \in 1..Len(lines) |->
                    [document_type |-> resolve_document_type(s).ret,
                     document_number |-> resolve_document_number(s).ret,
                     cups_code |-> Or(lines[i].cups_code, <<>>),
                     diagnosis_code |-> s.patient.principal_diagnosis_code,
                     attention_type_code |-> _map_attention_type(s.patient.service_type),
                     service_purpose_code |-> _map_service_purpose(s.patient.service_purpose),
                     net_value |-> Some(AmountOr(lines[i].line_extension_amount,
                                                 lines[i].price_amount))]],
               Resolved(s))

build_procedure_records(s) ==
    LET document_type == resolve_document_type(s).ret
        document_number == resolve_document_number(s).ret
        attention_code == _map_attention_type(s.patient.service_type)
        purpose_code == _map_service_purpose(s.patient.service_purpose)
        lines == s.invoice.lines
    IN  Return([i \in 1..Len(lines) |->
                    [document_type |-> document_type,
                     document_number |-> document_number,
                     cups_code |-> Or(lines[i].cups_code, <<>>),
                     diagnosis_code |-> s.patient.principal_diagnosis_code,
                     attention_type_code |-> attention_code,
                     service_purpose_code |-> purpose_code,
                     net_value |-> Some(AmountOr(lines[i].line_extension_amount,
                                                 lines[i].price_amount))]],
               Resolved(s))

RECURSIVE Strip(_)
\* str.strip()
Strip(t) ==
    IF t = <<>> THEN t
    ELSE IF IsWhitespace(Head(t)) THEN Strip(Tail(t))
    ELSE IF IsWhitespace(t[Len(t)]) THEN Strip(SubSeq(t, 1, Len(t) - 1))
    ELSE t

RECURSIVE _match_line_valueMutant(_, _)
_match_line_valueMutant(lines, cups_code) ==
    IF ~Truthy(cups_code) \/ lines = <<>> THEN 0
    ELSE IF Strip(Or(Head(lines).cups_code, <<>>)) = cups_code
    THEN Head(lines).line_extension_amount
    ELSE _match_line_valueMutant(Tail(lines), cups_code)

RECURSIVE _match_line_value(_, _)
\* _match_line_value over the invoice lines that are left
_match_line_value(lines, cups_code) ==
    IF ~Truthy(cups_code) \/ lines = <<>> THEN 0
    ELSE IF Strip(Or(Head(lines).cups_code, <<>>)) = cups_code
    THEN AmountOr(AmountOr(Head(lines).line_extension_amount, Head(lines).price_amount), 0)
    ELSE _match_line_value(Tail(lines), cups_code)

build_consultation_records(s) ==
    LET document_type == resolve_document_type(s).ret
        document_number == resolve_document_number(s).ret
        consultations == s.patient.consultations
    IN  Return([i \in 1..Len(consultations) |->
                    LET purpose_text == Or(consultations[i].purpose_text,
                                           s.patient.service_purpose)
                        line_value == _match_line_value(s.invoice.lines,
                                                        consultations[i].code)
                    IN  [document_type |-> document_type,
                         document_number |-> document_number,
                         consultation_code |-> consultations[i].code,
                         consultation_purpose |-> _map_consultation_purpose(purpose_text),
                         principal_diagnosis |-> s.patient.principal_diagnosis_code,
                         consultation_value |-> Some(line_value),
                         net_value |-> Some(line_value)]],
               Resolved(s))

entry_document_numberMutant(entry, document_number) == Or(entry.document_number, document_number)

\* the document number a medication or other-service record gets
entry_document_number(entry, document_number) ==
    LET own == Or(entry.document_number, document_number)
    IN  IF Truthy(own) /\ Truthy(document_number) /\ own # document_number
        THEN document_number ELSE own

\* the document type a medication or other-service record gets
entry_document_type(entry, document_type) ==
    LET own == Or(entry.document_type, document_type)
    IN  IF Truthy(own) /\ Truthy(document_type) /\ own # document_type
        THEN document_type ELSE own

\* the record of one annex entry, of either kind
EntryRecord(s, entry, document_type, document_number) ==
    [document_type |-> entry_document_type(entry, document_type),
     document_number |-> entry_document_number(entry, document_number),
     total_value |-> Some(entry.total_value),
     principal_diagnosis |-> Or(entry.diagnosis_code, s.patient.principal_diagnosis_code)]

build_medication_records(s) ==
    IF s.annex_data = <<>> THEN Return(<<>>, s)
    ELSE LET document_type == resolve_document_type(s).ret
             document_number == resolve_document_number(s).ret
             medications == s.annex_data[1].medications
         IN  Return([i \in 1..Len(medications) |->
                        EntryRecord(s, medications[i], document_type, document_number)],
                    Resolved(s))

build_other_service_records(s) ==
    IF s.annex_data = <<>> THEN Return(<<>>, s)
    ELSE LET document_type == resolve_document_type(s).ret
             document_number == resolve_document_number(s).ret
             other_services == s.annex_data[1].other_services
         IN  Return([i \in 1..Len(other_services) |->
                        EntryRecord(s, other_services[i], document_type, document_number)],
                    Resolved(s))

build_invoice_record(s) ==
    Return([document_type |-> resolve_document_type(s).ret,
            document_number |-> resolve_document_number(s).ret,
            total_value |-> Some(s.invoice.total_amount)],
           Resolved(s))

_resolve_full_name(s) ==
    IF Truthy(s.patient.full_name) THEN s.patient.full_name
    ELSE IF s.annex_data # <<>> /\ Truthy(s.annex_data[1].patient.full_name)
    THEN s.annex_data[1].patient.full_name
    ELSE None

_resolve_service_date(s) ==
    IF s.patient.admission_datetime # None THEN s.patient.admission_datetime
    ELSE s.invoice.issue_date

\* the list `tokens` of _split_names
name_tokens(full_name) ==
    SelectSeq(SplitSpace(Strip(ReplaceDoubleSpace(full_name)), <<>>),
              LAMBDA tok : tok # <<>>)

_split_namesMutant(full_name) ==
    LET tokens == name_tokens(full_name)
        n == Len(tokens)
    IN  IF ~Truthy(full_name) THEN [ret |-> <<None, None, None, None>>, raised |-> "none"]
        ELSE IF n = 0 THEN [ret |-> <<>>, raised |-> "IndexError"]
        ELSE IF n = 1 THEN [ret |-> <<None, None, tokens[1], None>>, raised |-> "none"]
        ELSE IF n = 2 THEN [ret |-> <<tokens[2], None, tokens[1], None>>, raised |-> "none"]
        ELSE IF n = 3
        THEN [ret |-> <<tokens[3], tokens[2], tokens[1], None>>, raised |-> "none"]
        ELSE [ret |-> <<tokens[n - 1], tokens[n], tokens[1], tokens[2]>>, raised |-> "none"]

\* _split_names: the tuple (first_last, second_last, first_name, second_name) it
\* returns, or the IndexError of tokens[-2] on an empty token list
_split_names(full_name) ==
    LET tokens == name_tokens(full_name)
        n == Len(tokens)
    IN  IF ~Truthy(full_name) THEN [ret |-> <<None, None, None, None>>, raised |-> "none"]
        ELSE IF n = 0 THEN [ret |-> <<>>, raised |-> "IndexError"]
        ELSE IF n = 1 THEN [ret |-> <<None, None, tokens[1], None>>, raised |-> "none"]
        ELSE IF n = 2 THEN [ret |-> <<tokens[2], None, tokens[1], None>>, raised |-> "none"]
        ELSE IF n = 3
        THEN [ret |-> <<tokens[3], tokens[2], tokens[1], None>>, raised |-> "none"]
        ELSE [ret |-> <<tokens[n - 1], tokens[n], tokens[1],
                        IF n > 4 THEN JoinSpace(SubSeq(tokens, 2, n - 2)) ELSE tokens[2]>>,
              raised |-> "none"]

_calculate_ageMutant(birth_date, reference_date) ==
    IF After(birth_date, reference_date) THEN <<>>
    ELSE <<reference_date[1] - birth_date[1]>>

\* _calculate_age: an Optional[int]
_calculate_age(birth_date, reference_date) ==
    IF After(birth_date, reference_date) THEN <<>>
    ELSE IF \/ reference_date[2] < birth_date[2]
            \/ reference_date[2] = birth_date[2] /\ reference_date[3] < birth_date[3]
    THEN <<reference_date[1] - birth_date[1] - 1>>
    ELSE <<reference_date[1] - birth_date[1]>>

build_user_record(s) ==
    LET number == resolve_document_number(s)
        type == resolve_document_type(number.self)
        names == _split_names(_resolve_full_name(s))
        birth_date == AnnexPatientField(s, "birth_date")
        age == IF s.annex_data # <<>> /\ birth_date # None
               THEN _calculate_age(birth_date, _resolve_service_date(s))
               ELSE <<>>
    IN  IF ~Truthy(number.ret) THEN Return(<<>>, number.self)
        ELSE IF names.raised # "none" THEN Raise(names.raised, type.self)
        ELSE Return(<<[document_type |-> type.ret,
                       document_number |-> number.ret,
                       last_name |-> names.ret[1],
                       second_last_name |-> names.ret[2],
                       first_name |-> names.ret[3],
                       second_name |-> names.ret[4],
                       age |-> age,
                       age_unit |-> IF age # <<>> THEN <<"A">> ELSE None]>>,
                    type.self)

(***************************************************************************)
(* Inputs of RipsBuilder                                                   *)
(***************************************************************************)
\* largest number of medication and other-service entries of an annex
MaxEntries == 2

RC == <<"R", "C">>

CE == <<"C", "E">>

PA == <<"P", "A">>

LowerTI == <<"t", "i">>

Doc1234 == <<"1", "2", "3", "4">>

Doc77 == <<"7", "7">>

Space == <<" ">>

Doc12Space34 == <<"1", "2", " ", "3", "4">>

\* quantity is a whole number of units
InvoiceLine(cups_code, quantity, price_amount, line_extension_amount) ==
    [cups_code |-> cups_code, quantity |-> quantity, price_amount |-> price_amount,
     line_extension_amount |-> line_extension_amount]

InvoiceData(issue_date, total_amount, lines) ==
    [issue_date |-> issue_date, total_amount |-> total_amount, lines |-> lines]

ConsultationInfo(code) == [code |-> code, purpose_text |-> None]

\* the fields not given are at their default, None
PatientInfo(t, n, at, an, dx, consultations) ==
    [document_type |-> t, document_number |-> n, admission_document_type |-> at,
     admission_document_number |-> an, principal_diagnosis_code |-> dx,
     consultations |-> consultations, full_name |-> None, admission_datetime |-> None,
     service_type |-> None, service_purpose |-> None]

\* the fields not given are at their default, None
AnnexPatientInfo(t, n) ==
    [document_type |-> t, document_number |-> n, full_name |-> None, birth_date |-> None]

\* an AnnexMedicationEntry or an AnnexOtherServiceEntry, tagged AM or AT
AnnexEntry(kind, t, n, total_value, dx) ==
    [kind |-> kind, document_type |-> t, document_number |-> n,
     total_value |-> total_value, diagnosis_code |-> dx]

AnnexData(patient, entries) ==
    [patient |-> patient,
     medications |-> OfKind(entries, "AM"),
     other_services |-> OfKind(entries, "AT")]

\* RipsBuilder(invoice=..., patient=..., annex_data=...): no memo attribute is set
RipsBuilder(invoice, patient, annex_data) ==
    [invoice |-> invoice, patient |-> patient, annex_data |-> annex_data,
     _resolved_document_type |-> None, _resolved_document_number |-> None]

(***************************************************************************)
(* invoice_parser.py: the invoice lines come from the rows of the PDF's     *)
(* table.  A row is the code cell and the values _parse_decimal read in    *)
(* the quantity, unit price and line total cells.                          *)
(***************************************************************************)
Row(code, quantity, unit_amount, line_total) ==
    [code |-> code, quantity |-> quantity, unit_amount |-> unit_amount,
     line_total |-> line_total]

_extract_lines_from_tablesMutant(rows) ==
    [i \in 1..Len(rows) |->
        InvoiceLine(Or(Strip(Or(rows[i].code, <<>>)), None), rows[i].quantity,
                    rows[i].unit_amount, rows[i].line_total)]

\* the InvoiceLine list of the rows of one table
_extract_lines_from_tables(rows) ==
    [i \in 1..Len(rows) |->
        LET code == Or(Strip(Or(rows[i].code, <<>>)), None)
            quantity == rows[i].quantity
            unit_amount == rows[i].unit_amount
            line_total ==
                IF rows[i].line_total = 0 /\ unit_amount # 0 /\ quantity # 0
                THEN unit_amount * quantity
                ELSE rows[i].line_total
        IN  InvoiceLine(code, quantity, unit_amount, line_total)]

\* largest number of table rows of an invoice and of consultations of a history
MaxLines == 2

Cups890301 == <<"8", "9", "0", "3", "0", "1">>

Date(year, month, day, hour) == <<year, month, day, hour>>

IssueDate == Date(2020, 6, 15, 0)

SampleTables ==
    {<<>>,
     <<Row(Cups890201, 1, 4500000, 4500000), Row(None, 0, 1000, 0)>>}

SampleConsultations == {<<>>, <<ConsultationInfo(Cups890201)>>}

\* rows: a plain one, one of another code, one whose line total cell is zero or
\* unreadable while quantity and unit price are not, one with a unit price only, one
\* without a code
SampleRows ==
    {Row(Cups890201, 1, 4500000, 4500000),
     Row(Cups890301, 3, 1000, 3000),
     Row(Cups890201, 2, 1000, 0),
     Row(Cups890201, 0, 2500, 0),
     Row(None, 1, 700, 700)}

SampleCodes == {Cups890201, Cups890301, <<>>}

UPPER_URGENCIAS == <<"U", "R", "G", "E", "N", "C", "I", "A", "S">>

ConsultaExterna == <<"C", "o", "n", "s", "u", "l", "t", "a", " ", "E", "x", "t", "e", "r", "n", "a">>

UPPER_HOSPITALIZACION == <<"H", "O", "S", "P", "I", "T", "A", "L", "I", "Z", "A", "C", "I", "Ó", "N">>

UPPER_VACUNACION == <<"V", "A", "C", "U", "N", "A", "C", "I", "Ó", "N">>

lower_vacunacion == <<"v", "a", "c", "u", "n", "a", "c", "i", "o", "n">>

ControlPrenatal == <<"C", "o", "n", "t", "r", "o", "l", " ", "p", "r", "e", "n", "a", "t", "a", "l">>

\* texts of the service type and the service purpose of a history
SampleTexts ==
    {None, <<>>, UPPER_URGENCIAS, ConsultaExterna, UPPER_HOSPITALIZACION,
     UPPER_VACUNACION, lower_vacunacion, ControlPrenatal}

Ana == <<"A", "N", "A">>

AnaRuiz == <<"A", "N", "A", " ", "R", "U", "I", "Z">>

AnaPazRuiz == <<"A", "N", "A", " ", "P", "A", "Z", " ", "R", "U", "I", "Z">>

AnaLuzPazRuiz == <<"A", "N", "A", " ", "L", "U", "Z", " ", "P", "A", "Z", " ", "R", "U", "I", "Z">>

AnaLuzMarPazRuiz == <<"A", "N", "A", " ", "L", "U", "Z", " ", "M", "A", "R", " ", "P", "A", "Z", " ", "R", "U", "I", "Z">>

AnaRuizSpaced == <<" ", " ", "A", "N", "A", " ", " ", " ", "R", "U", "I", "Z", " ">>

AnaTabLuzRuiz == <<"A", "N", "A", Tab, "L", "U", "Z", " ", "R", "U", "I", "Z">>

TabAnaRuiz == <<Tab, "A", "N", "A", " ", "R", "U", "I", "Z">>

SpacesOnly == <<" ", " ">>

\* full names of one to five tokens, with runs of spaces, with a tab inside or in
\* front, of spaces only, empty and absent
SampleNames ==
    {None, <<>>, SpacesOnly, Ana, AnaRuiz, AnaPazRuiz, AnaLuzPazRuiz, AnaLuzMarPazRuiz,
     AnaRuizSpaced, AnaTabLuzRuiz, TabAnaRuiz}

SampleIssueDates == {Date(2020, 6, 14, 0), IssueDate, Date(2021, 2, 1, 0)}

SampleAdmissions == {None, Date(2020, 6, 15, 8), Date(2019, 12, 31, 0)}

SampleBirthDates ==
    {None, Date(2000, 6, 15, 0), Date(2000, 12, 31, 0), Date(2020, 6, 15, 10),
     Date(2021, 6, 15, 0)}

AnnexEntries ==
    {AnnexEntry(k, id[1], id[2], 1000, None) :
        k \in {"AM", "AT"},
        id \in {<<None, None>>, <<PA, Doc999>>, <<None, Doc12345678>>, <<CC, None>>}}
    \cup {AnnexEntry(k, None, None, 2500, None) : k \in {"AM", "AT"}}

\* the builder a run constructs: either the three sources of the identity in every
\* combination, or an annex whose entries carry an identity of their own
\* the patient of a history that holds the identity CC 12345678 and diagnosis A09
Patient == PatientInfo(CC, Doc12345678, None, None, A09, <<>>)

InitBuilder ==
    \/ \E rows \in SampleTables, consultations \in SampleConsultations,
          t \in {None, TI}, n \in {None, Doc1234, Space}, at \in {None, RC},
          an \in {None, Doc77},
          annex \in {<<>>} \cup
                    {<<AnnexData(AnnexPatientInfo(xt, xn), <<>>)>> :
                        xt \in {None, LowerTI, CE},
                        xn \in {None, Doc12345678, Doc12Space34}} :
            /\ tables = rows
            /\ self = RipsBuilder(InvoiceData(IssueDate, 4500000,
                                              _extract_lines_from_tables(rows)),
                                  PatientInfo(t, n, at, an, A09, consultations), annex)
    \/ \E k \in 0..MaxEntries :
       \E entries \in [1..k -> AnnexEntries],
          id \in {<<None, None>>, <<CC, Doc12345678>>},
          xid \in {<<None, None>>, <<TI, Doc12345678>>} :
            /\ tables = <<>>
            /\ self = RipsBuilder(InvoiceData(IssueDate, 0, <<>>),
                                  PatientInfo(id[1], id[2], None, None, A09, <<>>),
                                  <<AnnexData(AnnexPatientInfo(xid[1], xid[2]), entries)>>)
    \* the table rows and the consultations
    \/ \E k \in 0..MaxLines, j \in 0..MaxLines :
       \E rows \in [1..k -> SampleRows], codes \in [1..j -> SampleCodes],
          annex \in {<<>>, <<AnnexData(AnnexPatientInfo(None, None), <<>>)>>} :
            /\ tables = rows
            /\ self = RipsBuilder(
                         InvoiceData(IssueDate, 4500000, _extract_lines_from_tables(rows)),
                         [Patient EXCEPT
                            !.consultations = [i \in 1..j |-> ConsultationInfo(codes[i])]],
                         annex)
    \* the texts of the service type and the service purpose
    \/ \E service_type \in SampleTexts, service_purpose \in SampleTexts,
          purpose_text \in {None, UPPER_VACUNACION} :
            /\ tables = <<Row(Cups890201, 1, 4500000, 4500000)>>
            /\ self = RipsBuilder(
                         InvoiceData(IssueDate, 4500000, _extract_lines_from_tables(tables)),
                         [Patient EXCEPT
                            !.service_type = service_type,
                            !.service_purpose = service_purpose,
                            !.consultations =
                                <<[ConsultationInfo(Cups890201) EXCEPT
                                        !.purpose_text = purpose_text]>>],
                         <<>>)
    \* the full names of the history and of the annex
    \/ \E n \in {None, Doc12345678}, full_name \in {None, AnaRuiz},
          annex_name \in SampleNames, with_annex \in BOOLEAN :
            /\ tables = <<>>
            /\ self = RipsBuilder(
                         InvoiceData(IssueDate, 0, <<>>),
                         [Patient EXCEPT !.document_number = n, !.full_name = full_name],
                         IF with_annex
                         THEN <<AnnexData([AnnexPatientInfo(None, None) EXCEPT
                                                !.full_name = annex_name], <<>>)>>
                         ELSE <<>>)
    \* the dates: issue of the invoice, admission, birth
    \/ \E n \in {None, Doc12345678}, issue_date \in SampleIssueDates,
          admission_datetime \in SampleAdmissions, birth_date \in SampleBirthDates,
          with_annex \in BOOLEAN :
            /\ tables = <<>>
            /\ self = RipsBuilder(
                         InvoiceData(issue_date, 0, <<>>),
                         [Patient EXCEPT !.document_number = n, !.full_name = AnaRuiz,
                                         !.admission_datetime = admission_datetime],
                         IF with_annex
                         THEN <<AnnexData([AnnexPatientInfo(None, None) EXCEPT
                                                !.birth_date = birth_date], <<>>)>>
                         ELSE <<>>)

(***************************************************************************)
(* The calls on a builder.  call is the last call made, what it returned   *)
(* or raised and which memo attributes were set when it was made; first is *)
(* what the first call of each resolve method returned, None before it;    *)
(* tables holds the rows the invoice lines were extracted from.            *)
(***************************************************************************)
NoFirst == [type |-> None, number |-> None]

Init ==
    /\ InitBuilder
    /\ call = NoCall
    /\ first = NoFirst
    /\ args = NoArguments
    /\ messages = <<>>

\* the first returns after a call that ran the resolve methods named
Observe(calls_type, calls_number) ==
    [type |-> IF calls_type /\ first.type = None
              THEN resolve_document_type(self).ret ELSE first.type,
     number |-> IF calls_number /\ first.number = None
                THEN resolve_document_number(self).ret ELSE first.number]

Call(op, result, calls_type, calls_number) ==
    /\ call' = [op |-> op, ret |-> result.ret, raised |-> result.raised,
                memo |-> [type |-> self._resolved_document_type # None,
                          number |-> self._resolved_document_number # None]]
    /\ self' = result.self
    /\ first' = Observe(calls_type, calls_number)
    /\ UNCHANGED <<args, messages, tables>>

ResolveDocumentType ==
    Call("resolve_document_type", resolve_document_type(self), TRUE, FALSE)

ResolveDocumentNumber ==
    Call("resolve_document_number", resolve_document_number(self), FALSE, TRUE)

BuildProcedureRecords ==
    Call("build_procedure_records", build_procedure_records(self), TRUE, TRUE)

BuildConsultationRecords ==
    Call("build_consultation_records", build_consultation_records(self), TRUE, TRUE)

BuildMedicationRecords ==
    Call("build_medication_records", build_medication_records(self),
         self.annex_data # <<>>, self.annex_data # <<>>)

BuildOtherServiceRecords ==
    Call("build_other_service_records", build_other_service_records(self),
         self.annex_data # <<>>, self.annex_data # <<>>)

BuildInvoiceRecord ==
    Call("build_invoice_record", build_invoice_record(self), TRUE, TRUE)

BuildUserRecord ==
    Call("build_user_record", build_user_record(self),
         Truthy(resolve_document_number(self).ret), TRUE)

\* main() of generate_rips.py on the builder it has just made: the six build_* calls
\* in its order, then validate_rips on what they returned; an exception ends the run
GenerateRips ==
    LET procedure_records == build_procedure_records(self)
        consultation_records == build_consultation_records(procedure_records.self)
        medication_records == build_medication_records(consultation_records.self)
        other_service_records == build_other_service_records(medication_records.self)
        invoice_record == build_invoice_record(other_service_records.self)
        user_record == build_user_record(invoice_record.self)
    IN  /\ call = NoCall
        /\ call' = [op |-> "main", ret |-> <<>>, raised |-> user_record.raised,
                    memo |-> NoMemo]
        /\ self' = user_record.self
        /\ first' = Observe(TRUE, TRUE)
        /\ IF user_record.raised = "none"
           THEN /\ args' = [invoice |-> invoice_record.ret,
                            user |-> user_record.ret,
                            procedures |-> procedure_records.ret,
                            consultations |-> consultation_records.ret,
                            medications |-> medication_records.ret,
                            other_services |-> other_service_records.ret]
                /\ messages' = validate_rips(invoice_record.ret, user_record.ret,
                                             procedure_records.ret,
                                             consultation_records.ret,
                                             medication_records.ret,
                                             other_service_records.ret)
           ELSE UNCHANGED <<args, messages>>
        /\ UNCHANGED tables

Next ==
    \/ ResolveDocumentType
    \/ ResolveDocumentNumber
    \/ BuildProcedureRecords
    \/ BuildConsultationRecords
    \/ BuildMedicationRecords
    \/ BuildOtherServiceRecords
    \/ BuildInvoiceRecord
    \/ BuildUserRecord
    \/ GenerateRips

Spec == Init /\ [][Next]_vars

(***************************************************************************)
(* Properties of RipsBuilder                                               *)
(***************************************************************************)
ResolveCalls == {"resolve_document_type", "resolve_document_number"}

RecordBuilds ==
    {"build_procedure_records", "build_consultation_records",
     "build_medication_records", "build_other_service_records"}

\* C1: every record the four record builders return carries the type
\* resolve_document_type() returns and the number resolve_document_number() returns,
\* also when an annex entry carries a type or number of its own.
C1_ResolvedIdentityApplied ==
    call.op \in RecordBuilds =>
        \A i \in 1..Len(call.ret) :
            /\ call.ret[i].document_type = resolve_document_type(self).ret
            /\ call.ret[i].document_number = resolve_document_number(self).ret

\* the candidates in the order of precedence: history, history admission, annex
TypeCandidates ==
    <<self.patient.document_type, self.patient.admission_document_type>>
    \o (IF self.annex_data # <<>> THEN <<self.annex_data[1].patient.document_type>>
        ELSE <<>>)

NumberCandidates ==
    <<self.patient.document_number, self.patient.admission_document_number>>
    \o (IF self.annex_data # <<>> THEN <<self.annex_data[1].patient.document_number>>
        ELSE <<>>)

\* the first candidate that is not blank, or the default when all are
FirstPresent(candidates, default) ==
    IF \A i \in 1..Len(candidates) : Blank(candidates[i])
    THEN default
    ELSE candidates[CHOOSE i \in 1..Len(candidates) :
                        /\ ~Blank(candidates[i])
                        /\ \A j \in 1..(i - 1) : Blank(candidates[j])]

\* C2 as amended: the resolved number is the first non-empty value in the order
\* history number, admission number, annex number, with its spaces removed, else the
\* empty string; the resolved type is the first non-empty value in the order history
\* type, admission type, annex type, in upper case, else "CC"; with no number in the
\* history and "12345678" in the annex the resolved number is "12345678".
C2_Precedence ==
    /\ call.op = "resolve_document_number" =>
          /\ call.ret = RemoveSpaces(FirstPresent(NumberCandidates, <<>>))
          /\ (/\ Blank(self.patient.document_number)
              /\ Blank(self.patient.admission_document_number)
              /\ self.annex_data # <<>>
              /\ self.annex_data[1].patient.document_number = Doc12345678)
                => call.ret = Doc12345678
    /\ call.op = "resolve_document_type" =>
          call.ret = Upper(FirstPresent(TypeCandidates, <<"C", "C">>))

C2_Witness ==
    /\ call.op = "resolve_document_number"
    /\ Blank(self.patient.document_number)
    /\ Blank(self.patient.admission_document_number)
    /\ self.annex_data # <<>>
    /\ self.annex_data[1].patient.document_number = Doc12345678
    /\ call.ret = Doc12345678

\* C2 as first stated: the resolved value is the first non-empty candidate itself.
C2_AsStated ==
    /\ call.op = "resolve_document_number" =>
          call.ret = FirstPresent(NumberCandidates, <<>>)
    /\ call.op = "resolve_document_type" =>
          call.ret = FirstPresent(TypeCandidates, <<"C", "C">>)

\* the builder as constructed from the same invoice, patient and annex
Fresh == RipsBuilder(self.invoice, self.patient, self.annex_data)

\* what a call returns on a builder
ReturnOf(op, s) ==
    CASE op = "resolve_document_type" -> resolve_document_type(s).ret
      [] op = "resolve_document_number" -> resolve_document_number(s).ret
      [] op = "build_procedure_records" -> build_procedure_records(s).ret
      [] op = "build_consultation_records" -> build_consultation_records(s).ret
      [] op = "build_medication_records" -> build_medication_records(s).ret
      [] op = "build_other_service_records" -> build_other_service_records(s).ret
      [] op = "build_invoice_record" -> build_invoice_record(s).ret
      [] op = "build_user_record" -> build_user_record(s).ret
      [] op = "main" -> <<>>

\* C3: every call of a resolve method returns what its first call returned, whatever
\* calls were made in between; and every call returns what it returns as the only call
\* on a builder constructed from the same inputs, so that neither the identity nor the
\* records depend on the order of the calls.
C3_Idempotent ==
    call.op # "none" =>
        /\ call.op = "resolve_document_type" => call.ret = first.type
        /\ call.op = "resolve_document_number" => call.ret = first.number
        /\ call.ret = ReturnOf(call.op, Fresh)

C3_Witness ==
    /\ call.op = "resolve_document_type"
    /\ call.memo.type /\ call.memo.number
    /\ call.ret = TI
    /\ FirstPresent(TypeCandidates, <<"C", "C">>) = LowerTI

\* C4 as amended: the resolved type is the upper-case form of the history type, the
\* admission type or the annex type, or is "CC"; the resolved number is the history
\* number, the admission number or the annex number with its spaces removed, or is the
\* empty string.
C4_FromSources ==
    /\ call.op = "resolve_document_type" =>
          \/ call.ret = <<"C", "C">>
          \/ \E i \in 1..Len(TypeCandidates) :
                ~Blank(TypeCandidates[i]) /\ call.ret = Upper(TypeCandidates[i])
    /\ call.op = "resolve_document_number" =>
          \/ call.ret = <<>>
          \/ \E i \in 1..Len(NumberCandidates) :
                ~Blank(NumberCandidates[i]) /\ call.ret = RemoveSpaces(NumberCandidates[i])

C4_Witness ==
    /\ call.op = "resolve_document_number"
    /\ call.memo.type
    /\ call.ret = Doc1234
    /\ self.annex_data # <<>>
    /\ self.annex_data[1].patient.document_number = Doc12Space34
    /\ Blank(self.patient.document_number)
    /\ Blank(self.patient.admission_document_number)

\* C4 as first stated: the resolved value is one of the candidates or the default.
C4_AsStated ==
    /\ call.op = "resolve_document_type" =>
          \/ call.ret = <<"C", "C">>
          \/ \E i \in 1..Len(TypeCandidates) : call.ret = TypeCandidates[i]
    /\ call.op = "resolve_document_number" =>
          \/ call.ret = <<>>
          \/ \E i \in 1..Len(NumberCandidates) : call.ret = NumberCandidates[i]

(***************************************************************************)
(* Properties of validate_rips                                             *)
(***************************************************************************)
Validated == call.op = "validate_rips"

HasCode(code) == \E i \in 1..Len(messages) : messages[i].code = code

CountCode(code) == Cardinality({i \in 1..Len(messages) : messages[i].code = code})

MessageOf(code) == messages[CHOOSE i \in 1..Len(messages) : messages[i].code = code]

RuleCodes == <<"DOC001", "TOT002", "TOT001", "DX001", "CUPS001">>

\* the four record sets of the call, by record type
RecordSet(kind) ==
    CASE kind = "AP" -> args.procedures
      [] kind = "AC" -> args.consultations
      [] kind = "AM" -> args.medications
      [] kind = "AT" -> args.other_services

\* the target identity, each part the user record's unless the user record is absent
\* or holds a blank there, and then the invoice record's
TargetType ==
    IF args.user # <<>> /\ ~Blank(args.user[1].document_type)
    THEN args.user[1].document_type ELSE args.invoice.document_type

TargetNumber ==
    IF args.user # <<>> /\ ~Blank(args.user[1].document_number)
    THEN args.user[1].document_number ELSE args.invoice.document_number

\* a record offends the document rule: its number is blank, or differs from a target
\* number that is not blank, or its type is not blank and differs from a target type
\* that is not blank
Offends(r) ==
    \/ Blank(r.document_number)
    \/ ~Blank(TargetNumber) /\ r.document_number # TargetNumber
    \/ ~Blank(TargetType) /\ ~Blank(r.document_type) /\ r.document_type # TargetType

Offenders(kind) == {i \in 1..Len(RecordSet(kind)) : Offends(RecordSet(kind)[i])}

DocumentCondition == \E kind \in RecordTypes : Offenders(kind) # {}

\* absent values counted as zero
ValueOf(v) == IF v = <<>> THEN 0 ELSE v[1]

RECURSIVE SumTo(_, _, _)
SumTo(records, field, n) ==
    IF n = 0 THEN 0 ELSE SumTo(records, field, n - 1) + ValueOf(records[n][field])

ProcedureSum == SumTo(args.procedures, "net_value", Len(args.procedures))

SecondarySum ==
    SumTo(args.consultations, "net_value", Len(args.consultations))
    + SumTo(args.medications, "total_value", Len(args.medications))
    + SumTo(args.other_services, "total_value", Len(args.other_services))

InvoiceTotal == ValueOf(args.invoice.total_value)

CanonicalTotal == IF ProcedureSum > 0 THEN ProcedureSum ELSE SecondarySum

TotalCondition == Abs(InvoiceTotal - CanonicalTotal) > 100

AmbiguityCondition == ProcedureSum > 0 /\ SecondarySum > 0

DiagnosisCondition ==
    \/ \E i \in 1..Len(args.procedures) : Blank(args.procedures[i].diagnosis_code)
    \/ \E kind \in RecordTypes \ {"AP"} :
          \E i \in 1..Len(RecordSet(kind)) : Blank(RecordSet(kind)[i].principal_diagnosis)

CupsCondition == \E i \in 1..Len(args.procedures) : Blank(args.procedures[i].cups_code)

RuleCondition(code) ==
    CASE code = "DOC001" -> DocumentCondition
      [] code = "TOT002" -> AmbiguityCondition
      [] code = "TOT001" -> TotalCondition
      [] code = "DX001" -> DiagnosisCondition
      [] code = "CUPS001" -> CupsCondition

IsRuleMessage(m) == m.code # "VAL000"

Codes(msgs) == [i \in 1..Len(msgs) |-> msgs[i].code]

\* C5: validate_rips never returns an empty list; it returns the single message
\* INFO VAL000 exactly when the condition of none of the five rules is met, and VAL000
\* never comes with another message.
C5_NeverEmpty ==
    Validated =>
        /\ Len(messages) >= 1
        /\ (messages = <<ValidationMessage("INFO", "VAL000", <<>>)>>)
             <=> (\A i \in 1..Len(RuleCodes) : ~RuleCondition(RuleCodes[i]))
        /\ HasCode("VAL000") => Len(messages) = 1

C5_Witness ==
    /\ Validated
    /\ messages = <<ValidationMessage("INFO", "VAL000", <<>>)>>
    /\ Len(args.procedures) + Len(args.medications) >= 2

\* C6: the rules do not short-circuit: each of the codes DOC001, TOT002, TOT001, DX001,
\* CUPS001 is in the result exactly when its own rule's condition is met, at most once,
\* and the codes come in that fixed order.
C6_IndependentOrdered ==
    Validated =>
        Codes(SelectSeq(messages, IsRuleMessage)) = SelectSeq(RuleCodes, RuleCondition)

C6_Witness ==
    /\ Validated
    /\ Codes(messages) = <<"DOC001", "TOT001", "DX001", "CUPS001">>

\* the entries of the DOC001 message that name a record type
EntriesOf(kind) ==
    {i \in 1..Len(MessageOf("DOC001").detail) : MessageOf("DOC001").detail[i][1] = kind}

\* C7 as amended: exactly one WARNING DOC001 is emitted if and only if at least one
\* record has a blank document number, a number different from a non-blank target
\* number, or a non-blank type different from a non-blank target type (each part of
\* the target taken from the user record unless it is absent or blank there, else from
\* the invoice record); the message has an entry for every offending record and none
\* for a record type without offenders.
C7_DocumentRule ==
    Validated =>
        /\ HasCode("DOC001") <=> DocumentCondition
        /\ CountCode("DOC001") <= 1
        /\ HasCode("DOC001") =>
              /\ MessageOf("DOC001").severity = "WARNING"
              /\ \A kind \in RecordTypes :
                    /\ Cardinality(EntriesOf(kind)) >= Cardinality(Offenders(kind))
                    /\ Offenders(kind) = {} => EntriesOf(kind) = {}

C7_Witness ==
    /\ Validated
    /\ args.user # <<>>
    /\ HasCode("DOC001")
    /\ \E kind \in RecordTypes : Cardinality(Offenders(kind)) = 1
    /\ \E kind \in RecordTypes : RecordSet(kind) # <<>> /\ Offenders(kind) = {}

\* the target identity as the claim words it: the user record's type and number if a
\* user record is present, else the invoice record's
ClaimedTargetType ==
    IF args.user # <<>> THEN args.user[1].document_type ELSE args.invoice.document_type

ClaimedTargetNumber ==
    IF args.user # <<>> THEN args.user[1].document_number ELSE args.invoice.document_number

\* two texts are the same, an absent and an empty one counting as the same blank
SameText(a, b) == (Blank(a) /\ Blank(b)) \/ a = b

\* C7 as first stated: DOC001 is emitted if and only if some record has a blank
\* document number or a type or number different from the target identity.
C7_AsStated ==
    Validated =>
        (HasCode("DOC001") <=>
            \E kind \in RecordTypes : \E i \in 1..Len(RecordSet(kind)) :
                \/ Blank(RecordSet(kind)[i].document_number)
                \/ ~SameText(RecordSet(kind)[i].document_number, ClaimedTargetNumber)
                \/ ~SameText(RecordSet(kind)[i].document_type, ClaimedTargetType))

\* C8 as amended: the canonical total is the sum of procedure net values when that sum
\* is greater than zero, otherwise the sum of consultation net values, medication
\* totals and other-service totals (absent values counted as zero); WARNING TOT001 is
\* emitted if and only if the invoice total and the canonical total differ by more
\* than 1 currency unit.
C8_TotalReconciliation ==
    Validated =>
        /\ HasCode("TOT001") <=> Abs(InvoiceTotal - CanonicalTotal) > 100
        /\ HasCode("TOT001") =>
              /\ MessageOf("TOT001").severity = "WARNING"
              /\ MessageOf("TOT001").detail[2] = CanonicalTotal

C8_Witness ==
    /\ Validated
    /\ ProcedureSum > 0
    /\ Abs(InvoiceTotal - ProcedureSum) = 100
    /\ ~HasCode("TOT001")

\* C8 as first stated: the procedure sum is the canonical total whenever it is nonzero.
C8_AsStated ==
    Validated =>
        (HasCode("TOT001") <=>
            Abs(InvoiceTotal - (IF ProcedureSum # 0 THEN ProcedureSum ELSE SecondarySum))
                > 100)

\* C9 as amended: INFO TOT002 is emitted if and only if the sum of procedure net values
\* is greater than zero and the sum of consultation, medication and other-service
\* totals is greater than zero too; with TOT002 in the result, TOT001 is decided
\* against the procedure sum alone.
C9_Ambiguity ==
    Validated =>
        /\ HasCode("TOT002") <=> (ProcedureSum > 0 /\ SecondarySum > 0)
        /\ HasCode("TOT002") =>
              /\ MessageOf("TOT002").severity = "INFO"
              /\ HasCode("TOT001") <=> Abs(InvoiceTotal - ProcedureSum) > 100

C9_Witness ==
    /\ Validated
    /\ HasCode("TOT002")
    /\ ~HasCode("TOT001")
    /\ Abs(InvoiceTotal - (ProcedureSum + SecondarySum)) > 100

\* C9 as first stated: TOT002 is emitted if and only if both sums are nonzero.
C9_AsStated ==
    Validated => (HasCode("TOT002") <=> (ProcedureSum # 0 /\ SecondarySum # 0))

\* invoice total 100000, procedure net values summing to 100050, nothing else
ScenarioD ==
    /\ args.invoice.total_value = Some(10000000)
    /\ args.procedures # <<>>
    /\ ProcedureSum = 10005000
    /\ args.consultations = <<>> /\ args.medications = <<>> /\ args.other_services = <<>>

\* C10 as amended: with an invoice total of 100000 and procedure net values summing to
\* 100050, WARNING TOT001 is emitted and reports the signed difference invoice total
\* minus record sum, which is -50.
C10_ScenarioD ==
    (Validated /\ ScenarioD) =>
        /\ CountCode("TOT001") = 1
        /\ MessageOf("TOT001").severity = "WARNING"
        /\ MessageOf("TOT001").detail = <<Some(10000000), 10005000, -5000>>

C10_Witness == Validated /\ ScenarioD /\ Len(args.procedures) = 2

\* C10 as first stated: the difference TOT001 reports is 50.
C10_AsStated ==
    (Validated /\ ScenarioD) =>
        (HasCode("TOT001") /\ MessageOf("TOT001").detail[3] = 5000)

\* the diagnosis attribute of the records of a set
DiagnosisField(kind) == IF kind = "AP" THEN "diagnosis_code" ELSE "principal_diagnosis"

\* the 1-based positions, within their own set, of the records without a diagnosis
MissingDiagnosis(kind) ==
    {i \in 1..Len(RecordSet(kind)) : Blank(RecordSet(kind)[i][DiagnosisField(kind)])}

\* the records the DX001 message names, as <<record type, position>>
NamedByDX001 ==
    {MessageOf("DX001").detail[i] : i \in 1..Len(MessageOf("DX001").detail)}

\* every rule but the diagnosis rule is satisfied
OnlyDiagnosisAtFault == ~DocumentCondition /\ ~TotalCondition /\ ~AmbiguityCondition /\ ~CupsCondition

\* C11: validate_rips emits exactly one ERROR DX001 if and only if some record of the
\* four sets has an absent or empty principal diagnosis; the message names exactly the
\* offending records, each by its type and its 1-based position within its own set;
\* a single procedure record without a diagnosis, all else valid, gives that one
\* message and nothing else.
C11_DiagnosisRule ==
    Validated =>
        /\ HasCode("DX001") <=> (\E kind \in RecordTypes : MissingDiagnosis(kind) # {})
        /\ CountCode("DX001") <= 1
        /\ HasCode("DX001") =>
              /\ MessageOf("DX001").severity = "ERROR"
              /\ NamedByDX001 =
                    {e \in RecordTypes \X (1..MaxRecords) : e[2] \in MissingDiagnosis(e[1])}
              /\ Len(MessageOf("DX001").detail) = Cardinality(NamedByDX001)
        /\ \A i \in 1..Len(args.procedures) :
              (OnlyDiagnosisAtFault /\ MissingDiagnosis("AP") = {i}
                    /\ \A kind \in RecordTypes \ {"AP"} : MissingDiagnosis(kind) = {})
                => messages = <<ValidationMessage("ERROR", "DX001", << <<"AP", i>> >>)>>

C11_Witness ==
    /\ Validated
    /\ Len(args.procedures) = 2
    /\ args.consultations = <<>> /\ args.medications = <<>> /\ args.other_services = <<>>
    /\ MissingDiagnosis("AP") = {2}
    /\ messages = <<ValidationMessage("ERROR", "DX001", << <<"AP", 2>> >>)>>

\* the 1-based positions of the procedure records without a CUPS code
MissingCups == {i \in 1..Len(args.procedures) : Blank(args.procedures[i].cups_code)}

\* the positions the CUPS001 message lists
ListedByCUPS001 ==
    {MessageOf("CUPS001").detail[i] : i \in 1..Len(MessageOf("CUPS001").detail)}

\* C12: validate_rips emits exactly one ERROR CUPS001 if and only if some procedure
\* record has an absent or empty CUPS code; the message lists the 1-based position of
\* exactly those procedure records; records of the other three sets never cause it.
C12_CupsRule ==
    Validated =>
        /\ HasCode("CUPS001") <=> MissingCups # {}
        /\ CountCode("CUPS001") <= 1
        /\ HasCode("CUPS001") =>
              /\ MessageOf("CUPS001").severity = "ERROR"
              /\ ListedByCUPS001 = MissingCups
              /\ Len(MessageOf("CUPS001").detail) = Cardinality(MissingCups)
        /\ args.procedures = <<>> => ~HasCode("CUPS001")

C12_Witness ==
    /\ Validated
    /\ Len(args.procedures) = 2
    /\ MissingCups = {2}
    /\ HasCode("CUPS001")
    /\ MessageOf("CUPS001").detail = <<2>>

(***************************************************************************)
(* Properties of the records RipsBuilder returns                           *)
(***************************************************************************)
BuildCalls == RecordBuilds \cup {"build_invoice_record", "build_user_record"}

\* C13: no build_* call raises, whatever the invoice, the history and the annex hold
\* (absent fields, empty lists, zero amounts, an empty or whitespace-only full name),
\* and a run of the six builds and validate_rips ends with a list of messages.
C13_NeverRaises ==
    /\ call.op \in BuildCalls => call.raised = "none"
    /\ call.op = "main" => (call.raised = "none" /\ Len(messages) >= 1)

\* the annex entries of the builder, <<>> without an annex
Medications == IF self.annex_data = <<>> THEN <<>> ELSE self.annex_data[1].medications

OtherServices == IF self.annex_data = <<>> THEN <<>> ELSE self.annex_data[1].other_services

\* C14: build_procedure_records returns one record per invoice line,
\* build_consultation_records one per consultation of the history,
\* build_medication_records and build_other_service_records one per annex entry of
\* their kind, the i-th record made of the i-th entry; without an annex the last two
\* return the empty list.
C14_Cardinality ==
    /\ call.op = "build_procedure_records" =>
          /\ Len(call.ret) = Len(self.invoice.lines)
          /\ Len(call.ret) = Len(tables)
          /\ \A i \in 1..Len(call.ret) :
                /\ SameText(call.ret[i].cups_code, self.invoice.lines[i].cups_code)
                /\ SameText(call.ret[i].cups_code, tables[i].code)
    /\ call.op = "build_consultation_records" =>
          /\ Len(call.ret) = Len(self.patient.consultations)
          /\ \A i \in 1..Len(call.ret) :
                call.ret[i].consultation_code = self.patient.consultations[i].code
    /\ call.op = "build_medication_records" =>
          /\ Len(call.ret) = Len(Medications)
          /\ \A i \in 1..Len(call.ret) :
                call.ret[i].total_value = Some(Medications[i].total_value)
    /\ call.op = "build_other_service_records" =>
          /\ Len(call.ret) = Len(OtherServices)
          /\ \A i \in 1..Len(call.ret) :
                call.ret[i].total_value = Some(OtherServices[i].total_value)

C14_Witness ==
    /\ call.op = "build_procedure_records"
    /\ Len(call.ret) = 2
    /\ call.ret[1].cups_code = <<>>
    /\ call.ret[2].cups_code = Cups890301

\* C15: build_user_record returns no user record if and only if the resolved document
\* number is empty, and otherwise returns one user record that carries the resolved
\* type and number.
C15_UserRecord ==
    call.op = "build_user_record" =>
        /\ (call.raised = "none" /\ call.ret = <<>>)
              <=> resolve_document_number(self).ret = <<>>
        /\ resolve_document_number(self).ret # <<>> =>
              /\ call.raised = "none"
              /\ Len(call.ret) = 1
              /\ call.ret[1].document_type = resolve_document_type(self).ret
              /\ call.ret[1].document_number = resolve_document_number(self).ret

\* C16: for every row of the invoice table with a nonzero unit price and a nonzero
\* quantity whose line total was read as zero, the procedure record made of the row's
\* invoice line has the net value unit price x quantity.
C16_LineTotalFallback ==
    call.op = "build_procedure_records" =>
        /\ Len(call.ret) = Len(tables)
        /\ \A i \in 1..Len(tables) :
              (tables[i].unit_amount # 0 /\ tables[i].quantity # 0
                    /\ tables[i].line_total = 0)
                => call.ret[i].net_value = Some(tables[i].unit_amount * tables[i].quantity)

C16_Witness ==
    /\ call.op = "build_procedure_records"
    /\ Len(tables) = 2
    /\ tables[2] = Row(Cups890201, 2, 1000, 0)
    /\ call.ret[2].net_value = Some(2000)

\* the positions of the invoice lines whose procedure code is the code given
LinesOfCode(code) ==
    {k \in 1..Len(self.invoice.lines) : self.invoice.lines[k].cups_code = code}

FirstLineOfCode(code) ==
    self.invoice.lines[CHOOSE k \in LinesOfCode(code) : \A l \in LinesOfCode(code) : k <= l]

\* C17 as amended: a consultation record's net value and consultation value are both
\* the line total of the first invoice line whose procedure code is the
\* consultation's code, or that line's unit price when its line total is zero; they
\* are zero when no invoice line has that code or the consultation has no code;
\* consultation code 890201 with a first line of that code and line total 45000 gives
\* 45000.
C17_MatchedValue ==
    call.op = "build_consultation_records" =>
        \A i \in 1..Len(call.ret) :
            LET code == self.patient.consultations[i].code
            IN  /\ call.ret[i].consultation_value = call.ret[i].net_value
                /\ (Blank(code) \/ LinesOfCode(code) = {}) =>
                        call.ret[i].net_value = Some(0)
                /\ (~Blank(code) /\ LinesOfCode(code) # {}) =>
                        call.ret[i].net_value =
                            Some(IF FirstLineOfCode(code).line_extension_amount # 0
                                 THEN FirstLineOfCode(code).line_extension_amount
                                 ELSE FirstLineOfCode(code).price_amount)
                /\ (code = Cups890201 /\ LinesOfCode(code) # {}
                        /\ FirstLineOfCode(code).line_extension_amount = 4500000) =>
                        call.ret[i].net_value = Some(4500000)

C17_Witness ==
    /\ call.op = "build_consultation_records"
    /\ Len(call.ret) = 2
    /\ Len(self.invoice.lines) = 2
    /\ self.patient.consultations[1].code = Cups890201
    /\ self.invoice.lines[1].cups_code = Cups890301
    /\ self.invoice.lines[2].cups_code = Cups890201
    /\ call.ret[1].net_value = Some(4500000)
    /\ call.ret[2].net_value = Some(0)

\* C17 as first stated: the value is the line total of an invoice line of the
\* consultation's code when there is one, and zero otherwise.
C17_AsStated ==
    call.op = "build_consultation_records" =>
        \A i \in 1..Len(call.ret) :
            LET code == self.patient.consultations[i].code
            IN  IF ~Blank(code) /\ LinesOfCode(code) # {}
                THEN \E k \in LinesOfCode(code) :
                        call.ret[i].net_value =
                            Some(self.invoice.lines[k].line_extension_amount)
                ELSE call.ret[i].net_value = Some(0)

\* the category names and the attention-type code of each
AttentionCategories ==
    <<<<<<"u", "r", "g", "e", "n", "c", "i", "a", "s">>, <<"0", "2">>>>,
      <<<<"c", "o", "n", "s", "u", "l", "t", "a", " ", "e", "x", "t", "e", "r", "n", "a">>,
        <<"0", "1">>>>,
      <<<<"h", "o", "s", "p", "i", "t", "a", "l", "i", "z", "a", "c", "i", "ó", "n">>,
        <<"0", "4">>>>,
      <<<<"v", "a", "c", "u", "n", "a", "c", "i", "ó", "n">>, <<"1", "3">>>>>>

\* a text holds, in any letter case, a key of the table
HoldsKeyOf(items, text) ==
    ~Blank(text) /\ \E k \in 1..Len(items) : Contains(Lower(text), items[k][1])

ValuesOf(items) == {items[k][2] : k \in 1..Len(items)}

\* C18: the attention-type code of a procedure record is the code of the category
\* whose name ("urgencias", "consulta externa", "hospitalizacion" and "vacunacion" in
\* their accented spelling) the service type holds in any letter case; the
\* attention-type code and the service-purpose code are absent when the text is
\* absent or holds no key of their table, and otherwise are a value of their table.
C18_CategoryLookup ==
    call.op = "build_procedure_records" =>
        \A i \in 1..Len(call.ret) :
            /\ \A c \in 1..Len(AttentionCategories) :
                  (~Blank(self.patient.service_type)
                        /\ Contains(Lower(self.patient.service_type),
                                    AttentionCategories[c][1]))
                    => call.ret[i].attention_type_code = AttentionCategories[c][2]
            /\ ~HoldsKeyOf(ATTENTION_TYPE_MAP, self.patient.service_type)
                  => call.ret[i].attention_type_code = None
            /\ ~HoldsKeyOf(SERVICE_PURPOSE_MAP, self.patient.service_purpose)
                  => call.ret[i].service_purpose_code = None
            /\ call.ret[i].attention_type_code \in ValuesOf(ATTENTION_TYPE_MAP) \cup {None}
            /\ call.ret[i].service_purpose_code \in ValuesOf(SERVICE_PURPOSE_MAP) \cup {None}

\* the pieces of a text between separator characters, as <<first, last>> positions
Runs(t, IsSeparator(_)) ==
    {r \in (1..Len(t)) \X (1..Len(t)) :
        /\ r[1] <= r[2]
        /\ \A k \in r[1]..r[2] : ~IsSeparator(t[k])
        /\ r[1] = 1 \/ IsSeparator(t[r[1] - 1])
        /\ r[2] = Len(t) \/ IsSeparator(t[r[2] + 1])}

\* the tokens of a text, in their order
TokensOf(t, IsSeparator(_)) ==
    [i \in 1..Cardinality(Runs(t, IsSeparator)) |->
        LET r == CHOOSE r \in Runs(t, IsSeparator) :
                    Cardinality({q \in Runs(t, IsSeparator) : q[1] < r[1]}) = i - 1
        IN  SubSeq(t, r[1], r[2])]

IsSpace(c) == c = " "

\* the name components the arity rule gives for a list of tokens:
\* <<first surname, second surname, first given name, second given name>>
ArityRule(tokens) ==
    LET n == Len(tokens)
    IN  CASE n = 1 -> <<None, None, tokens[1], None>>
          [] n = 2 -> <<tokens[2], None, tokens[1], None>>
          [] n = 3 -> <<tokens[3], tokens[2], tokens[1], None>>
          [] n >= 4 -> <<tokens[n - 1], tokens[n], tokens[1],
                         JoinSpace(SubSeq(tokens, 2, n - 2))>>

NameComponents(record) ==
    <<record.last_name, record.second_last_name, record.first_name, record.second_name>>

UserRecordReturned ==
    call.op = "build_user_record" /\ call.raised = "none" /\ call.ret # <<>>

\* the full name the user record is made of
FullName == _resolve_full_name(self)

\* C19 as amended: with the tokens of the full name being its pieces between space
\* characters, whitespace at its two ends left out: 1 token gives the first given
\* name only; 2 tokens give one surname and one given name; 3 tokens two surnames and
\* one given name; 4 or more tokens give the last two tokens as the surnames, the
\* first token as first given name and the tokens between joined by a space as second
\* given name; every token is in exactly one component.
C19_NameSplitting ==
    (UserRecordReturned /\ ~Blank(FullName)) =>
        LET tokens == TokensOf(Strip(FullName), IsSpace)
        IN  Len(tokens) >= 1 => NameComponents(call.ret[1]) = ArityRule(tokens)

C19_Witness ==
    /\ UserRecordReturned
    /\ FullName = AnaLuzMarPazRuiz
    /\ call.ret[1].last_name = <<"P", "A", "Z">>
    /\ call.ret[1].second_last_name = <<"R", "U", "I", "Z">>
    /\ call.ret[1].first_name = <<"A", "N", "A">>
    /\ call.ret[1].second_name = <<"L", "U", "Z", " ", "M", "A", "R">>

\* C19 as first stated: the tokens are the pieces between whitespace characters.
C19_AsStated ==
    (UserRecordReturned /\ ~Blank(FullName)) =>
        LET tokens == TokensOf(FullName, IsWhitespace)
        IN  Len(tokens) >= 1 => NameComponents(call.ret[1]) = ArityRule(tokens)

\* the days of a date, counted so that dates compare as their counts do
DayCount(year, month, day) == (year * 12 + month) * 31 + day

HourCount(date) == DayCount(date[1], date[2], date[3]) * 24 + date[4]

BirthDate == AnnexPatientField(self, "birth_date")

ServiceDate ==
    IF self.patient.admission_datetime # None THEN self.patient.admission_datetime
    ELSE self.invoice.issue_date

\* the birthdays, from the first on, that fall on the service day or before it
Birthdays ==
    {k \in 1..(Abs(ServiceDate[1] - BirthDate[1]) + 1) :
        DayCount(BirthDate[1] + k, BirthDate[2], BirthDate[3])
            <= DayCount(ServiceDate[1], ServiceDate[2], ServiceDate[3])}

\* C20: the age of the user record is the number of whole years from the annex birth
\* date to the service date (the admission datetime if there is one, else the issue
\* date of the invoice), a year less when the service month and day come before the
\* birth month and day; it is absent without an annex birth date and when the birth
\* date is after the service date; it is never negative; the age unit is "A" exactly
\* when the age is present.
C20_Age ==
    UserRecordReturned =>
        /\ (BirthDate = None \/ HourCount(BirthDate) > HourCount(ServiceDate))
              <=> call.ret[1].age = <<>>
        /\ call.ret[1].age # <<>> =>
              /\ call.ret[1].age[1] = Cardinality(Birthdays)
              /\ call.ret[1].age[1] >= 0
        /\ call.ret[1].age_unit = <<"A">> <=> call.ret[1].age # <<>>
        /\ call.ret[1].age = <<>> => call.ret[1].age_unit = None

C20_Witness ==
    /\ UserRecordReturned
    /\ BirthDate = Date(2000, 12, 31, 0)
    /\ ServiceDate = Date(2020, 6, 15, 8)
    /\ call.ret[1].age = <<19>>
    /\ call.ret[1].age_unit = <<"A">>

(***************************************************************************)
(* Properties of a run of generate_rips.py                                 *)
(***************************************************************************)
\* the run reached validate_rips
RunValidated == call.op = "main" /\ call.raised = "none"

ResolvedNumber == resolve_document_number(self).ret

\* C30: when one RipsBuilder makes the invoice record, the user record and the four
\* record sets and they are passed to validate_rips, DOC001 is not emitted if the
\* resolved document number is not empty, also when annex entries carry a type or
\* number of their own; DOC001 is emitted if the resolved number is empty and there
\* is at least one procedure or consultation record.
C30_EndToEndIdentity ==
    RunValidated =>
        /\ ResolvedNumber # <<>> => ~HasCode("DOC001")
        /\ (ResolvedNumber = <<>>
                /\ (args.procedures # <<>> \/ args.consultations # <<>>))
              => HasCode("DOC001")

C30_Witness ==
    /\ RunValidated
    /\ ResolvedNumber = Doc12345678
    /\ Len(self.annex_data[1].medications) = 2
    /\ self.annex_data[1].medications[1].document_number = Doc999
    /\ self.annex_data[1].medications[2].document_type = CC
    /\ ~HasCode("DOC001")

\* the other half of C30: no resolved number, records present, DOC001 emitted
C30_WitnessEmpty ==
    /\ RunValidated
    /\ ResolvedNumber = <<>>
    /\ args.procedures # <<>>
    /\ HasCode("DOC001")

(***************************************************************************)
(* Two RipsBuilder objects, made of two document triples, whose calls are  *)
(* interleaved.  self is the pair of objects, args the pair as             *)
(* constructed, first[i] tells whether object i has been called, and call  *)
(* names the object of the last call in its field builder.                 *)
(***************************************************************************)
Methods ==
    {"resolve_document_type", "resolve_document_number", "build_procedure_records",
     "build_consultation_records", "build_medication_records",
     "build_other_service_records", "build_invoice_record", "build_user_record"}

\* the call of a method on a builder: what it returns or raises and the object after it
Result(op, s) ==
    CASE op = "resolve_document_type" -> resolve_document_type(s)
      [] op = "resolve_document_number" -> resolve_document_number(s)
      [] op = "build_procedure_records" -> build_procedure_records(s)
      [] op = "build_consultation_records" -> build_consultation_records(s)
      [] op = "build_medication_records" -> build_medication_records(s)
      [] op = "build_other_service_records" -> build_other_service_records(s)
      [] op = "build_invoice_record" -> build_invoice_record(s)
      [] op = "build_user_record" -> build_user_record(s)

SetAttributesMutant(builders, i, s) ==
    [j \in 1..Len(builders) |->
        [builders[j] EXCEPT !._resolved_document_type = s._resolved_document_type,
                            !._resolved_document_number = s._resolved_document_number]]

\* `self._resolved_document_type = result`, `self._resolved_document_number = result`:
\* the attributes are set on the object the method was called on
SetAttributes(builders, i, s) == [builders EXCEPT ![i] = s]

\* document triples that resolve to different identities, one with annex entries of
\* their own identity, one whose full name is made of spaces
SampleBuilders ==
    {RipsBuilder(InvoiceData(IssueDate, 4500000,
                             _extract_lines_from_tables(
                                <<Row(Cups890201, 1, 4500000, 4500000)>>)),
                 PatientInfo(TI, Doc1234, None, None, A09, <<ConsultationInfo(Cups890201)>>),
                 <<>>),
     RipsBuilder(InvoiceData(IssueDate, 0, <<>>),
                 PatientInfo(None, None, None, None, A09, <<>>),
                 <<AnnexData(AnnexPatientInfo(LowerTI, Doc12Space34), <<>>)>>),
     RipsBuilder(InvoiceData(IssueDate, 0, <<>>),
                 PatientInfo(None, None, None, None, None, <<>>),
                 <<>>),
     RipsBuilder(InvoiceData(IssueDate, 0, <<>>),
                 Patient,
                 <<AnnexData(AnnexPatientInfo(CE, Doc999),
                             <<AnnexEntry("AM", PA, Doc999, 1000, None),
                               AnnexEntry("AT", None, None, 2500, None)>>)>>),
     RipsBuilder(InvoiceData(IssueDate, 0, <<>>),
                 [Patient EXCEPT !.document_number = Doc77, !.full_name = SpacesOnly],
                 <<>>)}

InitInterleaved ==
    /\ \E one \in SampleBuilders, two \in SampleBuilders :
          /\ self = <<one, two>>
          /\ args = <<one, two>>
    /\ call = NoCall
    /\ first = <<FALSE, FALSE>>
    /\ messages = <<>>
    /\ tables = <<>>

CallOn(i, op) ==
    /\ call' = [op |-> op, ret |-> Result(op, self[i]).ret,
                raised |-> Result(op, self[i]).raised,
                memo |-> [type |-> self[i]._resolved_document_type # None,
                          number |-> self[i]._resolved_document_number # None],
                builder |-> i]
    /\ self' = SetAttributes(self, i, Result(op, self[i]).self)
    /\ first' = [first EXCEPT ![i] = TRUE]
    /\ UNCHANGED <<args, messages, tables>>

NextInterleaved == \E i \in 1..2, op \in Methods : CallOn(i, op)

SpecInterleaved == InitInterleaved /\ [][NextInterleaved]_vars

\* the input entities of a builder object
Entities(s) == <<s.invoice, s.patient, s.annex_data>>

\* C29: with the calls on two builders interleaved in any order, every call returns
\* (or raises) what the same call does on a builder just made of the same triple, so
\* the resolved identity and the records are those of the builder run alone; a
\* builder that has not been called holds no memoized identity, whatever was called
\* on the other; and no call changes the invoice, patient or annex of either.
C29_NoCrossTalk ==
    /\ call.op # "none" =>
          /\ call.ret = Result(call.op, args[call.builder]).ret
          /\ call.raised = Result(call.op, args[call.builder]).raised
    /\ \A i \in 1..2 :
          /\ Entities(self[i]) = Entities(args[i])
          /\ ~first[i] => self[i] = args[i]
          /\ self[i]._resolved_document_type \in
                {None, resolve_document_type(args[i]).ret}
          /\ self[i]._resolved_document_number \in
                {None, resolve_document_number(args[i]).ret}

C29_Witness ==
    /\ call.op = "build_medication_records"
    /\ call.builder = 2
    /\ call.memo.number
    /\ first[1]
    /\ self[1]._resolved_document_number = Doc1234
    /\ self[2]._resolved_document_number = Doc12345678
    /\ Len(call.ret) = 1
    /\ call.ret[1].document_number = Doc12345678

(***************************************************************************)
(* invoice_parser.py: InvoiceParser on the text and the tables of a PDF.   *)
(* A Decimal read from text is [unscaled, scale], the value                *)
(* unscaled / 10^scale.                                                    *)
(***************************************************************************)
DigitChars == <<"0", "1", "2", "3", "4", "5", "6", "7", "8", "9">>

IsDigit(c) == \E d \in 1..10 : DigitChars[d] = c

DigitValue(c) == (CHOOSE d \in 1..10 : DigitChars[d] = c) - 1

RECURSIVE ParseNat(_)
\* int() of a string of digits, 0 for the empty string
ParseNat(digits) ==
    IF digits = <<>> THEN 0
    ELSE 10 * ParseNat(SubSeq(digits, 1, Len(digits) - 1)) + DigitValue(digits[Len(digits)])

RECURSIVE Pow10(_)
Pow10(n) == IF n = 0 THEN 1 ELSE 10 * Pow10(n - 1)

Dec(unscaled, scale) == [unscaled |-> unscaled, scale |-> scale]

\* `a == b` on two Decimal
DecEq(a, b) == a.unscaled * Pow10(b.scale) = b.unscaled * Pow10(a.scale)

RECURSIVE RemoveAll(_, _)
\* str.replace(old, ""), old not empty
RemoveAll(t, old) ==
    IF Len(t) < Len(old) THEN t
    ELSE IF SubSeq(t, 1, Len(old)) = old THEN RemoveAll(SubSeq(t, Len(old) + 1, Len(t)), old)
    ELSE <<Head(t)>> \o RemoveAll(Tail(t), old)

\* str.replace(",", ".")
CommasToDots(t) == [i \in 1..Len(t) |-> IF t[i] = "," THEN "." ELSE t[i]]

CountOf(t, c) == Cardinality({i \in 1..Len(t) : t[i] = c})

\* "".join(parts[:-1]) + "." + parts[-1] of parts = value.split("."): every dot but
\* the last is dropped
KeepLastDot(t) ==
    LET last == CHOOSE i \in 1..Len(t) : t[i] = "." /\ \A j \in (i + 1)..Len(t) : t[j] # "."
    IN  SelectSeq(SubSeq(t, 1, last - 1), LAMBDA c : c # ".") \o SubSeq(t, last, Len(t))

\* Decimal(value) accepts value: an optional sign, digits with at most one point, one
\* digit at least (exponents, underscores and the special values are not in the
\* texts considered)
IsDecimalLiteral(t) ==
    LET body == IF t # <<>> /\ Head(t) \in {"+", "-"} THEN Tail(t) ELSE t
    IN  /\ \A i \in 1..Len(body) : IsDigit(body[i]) \/ body[i] = "."
        /\ CountOf(body, ".") <= 1
        /\ \E i \in 1..Len(body) : IsDigit(body[i])

\* Decimal(value) of an accepted value
DecimalOf(t) ==
    LET negative == Head(t) = "-"
        body == IF Head(t) \in {"+", "-"} THEN Tail(t) ELSE t
        point == IF CountOf(body, ".") = 0 THEN Len(body) + 1
                 ELSE CHOOSE i \in 1..Len(body) : body[i] = "."
        magnitude == ParseNat(SelectSeq(body, IsDigit))
    IN  Dec(IF negative THEN 0 - magnitude ELSE magnitude,
            IF point > Len(body) THEN 0 ELSE Len(body) - point)

_parse_decimalMutant(raw_value) ==
    LET value == CommasToDots(RemoveAll(RemoveAll(RemoveAll(
                    Strip(raw_value), <<"$">>), <<"C", "O", "P">>), <<" ">>))
    IN  IF raw_value = None \/ Strip(raw_value) = <<>> THEN Dec(0, 0)
        ELSE IF IsDecimalLiteral(SelectSeq(value, LAMBDA c : c # "."))
        THEN DecimalOf(SelectSeq(value, LAMBDA c : c # "."))
        ELSE Dec(ParseNat(SelectSeq(value, IsDigit)), 2)

_parse_decimal(raw_value) ==
    LET stripped == Strip(raw_value)
        replaced == CommasToDots(RemoveAll(RemoveAll(RemoveAll(
                        stripped, <<"$">>), <<"C", "O", "P">>), <<" ">>))
        value == IF CountOf(replaced, ".") > 1 THEN KeepLastDot(replaced) ELSE replaced
        digits == SelectSeq(value, IsDigit)
    IN  IF raw_value = None THEN Dec(0, 0)
        ELSE IF stripped = <<>> THEN Dec(0, 0)
        ELSE IF IsDecimalLiteral(value) THEN DecimalOf(value)
        ELSE IF digits = <<>> THEN Dec(0, 0)
        ELSE Dec(ParseNat(digits), 2)

\* a Decimal as hundredths, the unit of every amount of the records (the amounts of
\* the texts considered have two decimals at most)
Hundredths(d) ==
    IF d.scale <= 2 THEN d.unscaled * Pow10(2 - d.scale)
    ELSE d.unscaled \div Pow10(d.scale - 2)

\* a Decimal as whole units (the quantities of the tables considered are whole)
Units(d) == d.unscaled \div Pow10(d.scale)

Newline == "\n"

RECURSIVE lines_from(_, _)
\* the lines of the text from the position pos on
lines_from(text, pos) ==
    LET breaks == {i \in pos..Len(text) : text[i] = Newline}
        i == CHOOSE k \in breaks : \A j \in breaks : k <= j
    IN  IF pos > Len(text) THEN <<>>
        ELSE IF breaks = {} THEN <<SubSeq(text, pos, Len(text))>>
        ELSE <<SubSeq(text, pos, i - 1)>> \o lines_from(text, i + 1)

\* str.splitlines()
splitlines(text) == lines_from(text, 1)

\* [line.strip() for line in raw_text.splitlines() if line.strip()]
text_lines_of(raw_text) ==
    LET lines == splitlines(raw_text)
        stripped == [i \in 1..Len(lines) |-> Strip(lines[i])]
    IN  SelectSeq(stripped, LAMBDA line : line # <<>>)

\* str.startswith
StartsWith(t, prefix) == Len(t) >= Len(prefix) /\ SubSeq(t, 1, Len(prefix)) = prefix

\* A regular expression of DATE_PATTERNS as the shapes it matches, preferred first:
\* "d" stands for \d, any other character for itself.
Shape_dmY_slash == <<"d", "d", "/", "d", "d", "/", "d", "d", "d", "d">>
Shape_dmY_dash == <<"d", "d", "-", "d", "d", "-", "d", "d", "d", "d">>
Shape_Ymd == <<"d", "d", "d", "d", "-", "d", "d", "-", "d", "d">>
Shape_dd_mm_yy == <<"d", "d", "/", "d", "d", "/", "d", "d">>
Shape_dd_m_yy == <<"d", "d", "/", "d", "/", "d", "d">>
Shape_d_mm_yy == <<"d", "/", "d", "d", "/", "d", "d">>
Shape_d_m_yy == <<"d", "/", "d", "/", "d", "d">>

\* (fmt, pattern) pairs; the order of the fields of a format is day-month-year or
\* year-month-day, its separator "/" or "-", its year of four digits or two
DATE_PATTERNS ==
    << [fmt |-> "%d/%m/%Y", separator |-> "/", shapes |-> <<Shape_dmY_slash>>],
       [fmt |-> "%d-%m-%Y", separator |-> "-", shapes |-> <<Shape_dmY_dash>>],
       [fmt |-> "%Y-%m-%d", separator |-> "-", shapes |-> <<Shape_Ymd>>],
       [fmt |-> "%d/%m/%y", separator |-> "/",
        shapes |-> <<Shape_dd_mm_yy, Shape_dd_m_yy, Shape_d_mm_yy, Shape_d_m_yy>>] >>

MatchesAt(text, i, shape) ==
    /\ i + Len(shape) - 1 <= Len(text)
    /\ \A k \in 1..Len(shape) :
          IF shape[k] = "d" THEN IsDigit(text[i + k - 1]) ELSE text[i + k - 1] = shape[k]

\* pattern.search(text): the leftmost match, the preferred shape at that position;
\* <<>> when there is none, else <<match.group(1)>>
search(shapes, text) ==
    LET starts == {i \in 1..Len(text) : \E n \in 1..Len(shapes) : MatchesAt(text, i, shapes[n])}
        i == CHOOSE k \in starts : \A j \in starts : k <= j
        n == CHOOSE k \in 1..Len(shapes) :
                /\ MatchesAt(text, i, shapes[k])
                /\ \A j \in 1..(k - 1) : ~MatchesAt(text, i, shapes[j])
    IN  IF starts = {} THEN <<>> ELSE <<SubSeq(text, i, i + Len(shapes[n]) - 1)>>

IsLeap(year) == year % 4 = 0 /\ (year % 100 # 0 \/ year % 400 = 0)

DaysIn(month, year) ==
    IF month = 2 THEN (IF IsLeap(year) THEN 29 ELSE 28)
    ELSE IF month \in {4, 6, 9, 11} THEN 30 ELSE 31

RECURSIVE Fields(_, _)
\* the fields of a matched date, split at its separator
Fields(matched, separator) ==
    IF \E i \in 1..Len(matched) : matched[i] = separator
    THEN LET i == CHOOSE k \in 1..Len(matched) :
                    matched[k] = separator /\ \A j \in 1..(k - 1) : matched[j] # separator
         IN  <<ParseNat(SubSeq(matched, 1, i - 1))>>
                 \o Fields(SubSeq(matched, i + 1, Len(matched)), separator)
    ELSE <<ParseNat(matched)>>

\* datetime.strptime(matched, fmt) on a string the pattern of fmt matched: <<>> for
\* ValueError, else <<the datetime>>. A two-digit year below 69 is of this century.
strptime(matched, pair) ==
    LET fields == Fields(matched, pair.separator)
        day == IF pair.fmt = "%Y-%m-%d" THEN fields[3] ELSE fields[1]
        month == fields[2]
        written == IF pair.fmt = "%Y-%m-%d" THEN fields[1] ELSE fields[3]
        year == IF pair.fmt # "%d/%m/%y" THEN written
                ELSE IF written < 69 THEN 2000 + written ELSE 1900 + written
    IN  IF year >= 1 /\ month \in 1..12 /\ day \in 1..DaysIn(month, year)
        THEN <<Date(year, month, day, 0)>>
        ELSE <<>>

\* the pairs of DATE_PATTERNS from the n-th on
RECURSIVE issue_date_from(_, _)
issue_date_from(text, n) ==
    IF n > Len(DATE_PATTERNS) THEN [ret |-> <<>>, raised |-> "ValueError"]
    ELSE LET match == search(DATE_PATTERNS[n].shapes, text)
         IN  IF match # <<>> /\ strptime(match[1], DATE_PATTERNS[n]) # <<>>
             THEN [ret |-> strptime(match[1], DATE_PATTERNS[n])[1], raised |-> "none"]
             ELSE issue_date_from(text, n + 1)

_extract_issue_date(text) == issue_date_from(text, 1)

IsAmountChar(c) == IsDigit(c) \/ c = "." \/ c = ","

\* the end of the match of \$\s*[0-9.,]+ that starts at the "$" at i, 0 without match
AmountEnd(line, i) ==
    LET digits_from == CHOOSE k \in (i + 1)..(Len(line) + 1) :
                          /\ \A j \in (i + 1)..(k - 1) : IsWhitespace(line[j])
                          /\ k > Len(line) \/ ~IsWhitespace(line[k])
        past == CHOOSE k \in digits_from..(Len(line) + 1) :
                          /\ \A j \in digits_from..(k - 1) : IsAmountChar(line[j])
                          /\ k > Len(line) \/ ~IsAmountChar(line[k])
    IN  IF past > digits_from THEN past - 1 ELSE 0

\* None is <<>>, a Decimal d is <<d>>
_find_amount_in_line(line) ==
    LET matches == {i \in 1..Len(line) : line[i] = "$" /\ AmountEnd(line, i) # 0}
        last == CHOOSE i \in matches : \A j \in matches : j <= i
    IN  IF line = <<>> THEN <<>>
        ELSE IF matches = {} THEN <<>>
        ELSE <<_parse_decimal(SubSeq(line, last, AmountEnd(line, last)))>>

\* the amount of the first of line idx and the three lines after it that has one
RECURSIVE amount_near(_, _, _)
amount_near(lines, idx, candidate) ==
    IF candidate > idx + 3 \/ candidate > Len(lines) THEN <<>>
    ELSE IF _find_amount_in_line(lines[candidate]) # <<>>
    THEN _find_amount_in_line(lines[candidate])
    ELSE amount_near(lines, idx, candidate + 1)

\* the lines from the idx-th on
RECURSIVE amount_after_label_from(_, _, _)
amount_after_label_from(lines, label, idx) ==
    IF idx > Len(lines) THEN <<>>
    ELSE IF ~StartsWith(Lower(lines[idx]), Lower(label))
    THEN amount_after_label_from(lines, label, idx + 1)
    ELSE IF amount_near(lines, idx, idx) # <<>> THEN amount_near(lines, idx, idx)
    ELSE amount_after_label_from(lines, label, idx + 1)

_extract_amount_after_label(lines, label) == amount_after_label_from(lines, label, 1)

TotalLabel == <<"T", "o", "t", "a", "l">>

SubtotalLabel == <<"S", "u", "b", "t", "o", "t", "a", "l">>

\* `if total:` is false for None and for a Decimal equal to zero
_extract_total_amount(lines) ==
    LET total == _extract_amount_after_label(lines, TotalLabel)
    IN  IF total # <<>> /\ total[1].unscaled # 0 THEN total
        ELSE _extract_amount_after_label(lines, SubtotalLabel)

codigo == <<"c", "o", "d", "i", "g", "o">>

nombre == <<"n", "o", "m", "b", "r", "e">>

SUBTOTAL == <<"S", "U", "B", "T", "O", "T", "A", "L">>

\* a table the lines are read from: two rows at least, a header row with the cells
\* "codigo" and "nombre"
HasLines(table) ==
    /\ Len(table) >= 2
    /\ \E c \in 1..Len(table[1]) : Lower(Strip(Or(table[1][c], <<>>))) = codigo
    /\ \E c \in 1..Len(table[1]) : Lower(Strip(Or(table[1][c], <<>>))) = nombre

\* str.upper() on every letter
upper(t) ==
    [i \in 1..Len(t) |->
        IF \E n \in 1..Len(LowerLetters) : LowerLetters[n] = t[i]
        THEN UpperLetters[CHOOSE n \in 1..Len(LowerLetters) : LowerLetters[n] = t[i]]
        ELSE t[i]]

\* a row of such a table a line is made of
IsLine(row) ==
    /\ row # <<>>
    /\ Strip(Or(row[1], <<>>)) # <<>>
    /\ ~StartsWith(upper(Strip(Or(row[1], <<>>))), SUBTOTAL)

\* row[7], the last cell the loop reads, counted from zero
LastCell == 7

RECURSIVE rows_of(_)
\* the rows of one table below its header, as the cells the loop reads of each:
\* row[1], row[5], row[6] and row[7], counted from zero
rows_of(rows) ==
    IF rows = <<>> THEN [ret |-> <<>>, raised |-> "none"]
    ELSE IF ~IsLine(Head(rows)) THEN rows_of(Tail(rows))
    ELSE IF Len(Head(rows)) <= LastCell THEN [ret |-> <<>>, raised |-> "IndexError"]
    ELSE LET row == Head(rows)
             rest == rows_of(Tail(rows))
         IN  [ret |-> <<Row(row[2], Units(_parse_decimal(row[6])),
                            Hundredths(_parse_decimal(row[7])),
                            Hundredths(_parse_decimal(row[8])))>> \o rest.ret,
              raised |-> rest.raised]

RECURSIVE rows_of_tables(_)
\* the rows of every table of the document, in order
rows_of_tables(pdf_tables) ==
    IF pdf_tables = <<>> THEN [ret |-> <<>>, raised |-> "none"]
    ELSE IF ~HasLines(Head(pdf_tables)) THEN rows_of_tables(Tail(pdf_tables))
    ELSE LET here == rows_of(Tail(Head(pdf_tables)))
             rest == rows_of_tables(Tail(pdf_tables))
         IN  IF here.raised # "none" THEN here
             ELSE [ret |-> here.ret \o rest.ret, raised |-> rest.raised]

RECURSIVE line_sum(_)
\* sum((line.line_extension_amount or Decimal("0")) for line in invoice_lines)
line_sum(invoice_lines) ==
    IF invoice_lines = <<>> THEN 0
    ELSE Head(invoice_lines).line_extension_amount + line_sum(Tail(invoice_lines))

\* InvoiceParser.parse on the text and the tables of the PDF: the issue date first,
\* then the lines, then the total; the identifier, the names and the tax ids are
\* searches that return None when they find nothing and take no part here
parse(raw_text, pdf_tables) ==
    LET text_lines == text_lines_of(raw_text)
        issue_date == _extract_issue_date(raw_text)
        rows == rows_of_tables(pdf_tables)
        invoice_lines == _extract_lines_from_tables(rows.ret)
        labelled == _extract_total_amount(text_lines)
        total_amount == IF labelled # <<>> THEN Hundredths(labelled[1])
                        ELSE IF invoice_lines # <<>> THEN line_sum(invoice_lines)
                        ELSE 0
    IN  IF issue_date.raised # "none" THEN [ret |-> <<>>, raised |-> issue_date.raised]
        ELSE IF rows.raised # "none" THEN [ret |-> <<>>, raised |-> rows.raised]
        ELSE [ret |-> InvoiceData(issue_date.ret, total_amount, invoice_lines),
              raised |-> "none"]

\* The text of a page: a line with the date, then the lines of the totals.
Date_dmY_slash ==
    <<"F", "e", "c", "h", "a", ":", " ", "1", "5", "/", "0", "6", "/", "2", "0", "2", "0",
      "\n">>

Date_dmY_dash ==
    <<"F", "e", "c", "h", "a", " ", "1", "5", "-", "0", "6", "-", "2", "0", "2", "0", "\n">>

Date_Ymd == <<"2", "0", "2", "0", "-", "0", "6", "-", "1", "5", "\n">>

Date_d_m_yy == <<"5", "/", "6", "/", "2", "0", "\n">>

Date_d_m_99 == <<"1", "/", "7", "/", "9", "9", "\n">>

Date_Ymd_then_dmY ==
    <<"2", "0", "2", "0", "-", "0", "6", "-", "1", "5", " ", "1", "6", "/", "0", "6", "/", "2",
      "0", "2", "0", "\n">>

Date_invalid_then_dash ==
    <<"3", "1", "/", "0", "2", "/", "2", "0", "2", "0", " ", "0", "1", "-", "0", "3", "-", "2",
      "0", "2", "0", "\n">>

Date_invalid == <<"3", "1", "/", "0", "2", "/", "2", "0", "2", "0", "\n">>

Date_none == <<"F", "E", "R", "O", " ", "S", "A", "S", "\n">>

SampleDateLines ==
    {Date_dmY_slash, Date_dmY_dash, Date_Ymd, Date_d_m_yy, Date_d_m_99,
     Date_Ymd_then_dmY, Date_invalid_then_dash, Date_invalid, Date_none}

Totals_none == <<>>

Totals_total == <<"T", "o", "t", "a", "l", " ", "$", "1", ".", "2", "3", "4", ",", "5", "6", "\n">>

Totals_subtotal ==
    <<"S", "u", "b", "t", "o", "t", "a", "l", " ", "$", "5", "0", "0", ",", "0", "0", "\n">>

Totals_zero_total_subtotal ==
    <<"T", "o", "t", "a", "l", " ", "$", "0", "\n", "S", "u", "b", "t", "o", "t", "a", "l",
      " ", "$", "5", "0", "0", ",", "0", "0", "\n">>

Totals_subtotal_total ==
    <<"S", "u", "b", "t", "o", "t", "a", "l", " ", "$", "3", "0", "0", "\n", "T", "O", "T",
      "A", "L", " ", "$", "1", ".", "0", "0", "0", ",", "0", "0", "\n">>

Totals_next_line ==
    <<"T", "o", "t", "a", "l", "\n", "$", " ", "2", ".", "5", "0", "0", ",", "0", "0", "\n">>

Totals_zero_total == <<"T", "o", "t", "a", "l", " ", "$", "0", "\n">>

Totals_no_amount == <<"T", "o", "t", "a", "l", " ", "a", " ", "p", "a", "g", "a", "r", "\n">>

SampleTotalLines ==
    {Totals_none, Totals_total, Totals_subtotal, Totals_zero_total_subtotal,
     Totals_subtotal_total, Totals_next_line, Totals_zero_total, Totals_no_amount}

\* The tables of a page, as pdfplumber returns them: rows of cells, a cell a string
\* or None.
\* a line, a subtotal row and a row with a blank first cell, both shorter
Table_lines ==
    << <<<<"I", "t", "e", "m">>, <<"C", "o", "d", "i", "g", "o">>, <<"N", "o", "m", "b", "r", "e">>, <<"U", "n", "d">>, <<"I", "v", "a">>, <<"C", "a", "n", "t">>, <<"V", "a", "l", "o", "r">>, <<"T", "o", "t", "a", "l">>>>,
       <<<<"1">>, <<"8", "9", "0", "3", "0", "1">>, <<"C", "O", "N", "S", "U", "L", "T", "A">>, None, None, <<"1">>, <<"$", "5", "0", ".", "0", "0", "0", ",", "0", "0">>, <<"$", "5", "0", ".", "0", "0", "0", ",", "0", "0">>>>,
       <<<<"S", "U", "B", "T", "O", "T", "A", "L">>>>,
       <<None, None>> >>

\* a line without its total
Table_no_total ==
    << <<<<"I", "t", "e", "m">>, <<"C", "o", "d", "i", "g", "o">>, <<"N", "o", "m", "b", "r", "e">>, <<"U", "n", "d">>, <<"I", "v", "a">>, <<"C", "a", "n", "t">>, <<"V", "a", "l", "o", "r">>, <<"T", "o", "t", "a", "l">>>>,
       <<<<"2">>, <<" ", "8", "9", "0", "3", "0", "1", " ">>, <<"C", "O", "N", "S", "U", "L", "T", "A">>, None, None, <<"2">>, <<"$", "1", "0", "0", ",", "0", "0">>, <<>>>> >>

\* a line whose amounts are no numbers
Table_unparseable ==
    << <<<<"I", "t", "e", "m">>, <<"C", "o", "d", "i", "g", "o">>, <<"N", "o", "m", "b", "r", "e">>, <<"U", "n", "d">>, <<"I", "v", "a">>, <<"C", "a", "n", "t">>, <<"V", "a", "l", "o", "r">>, <<"T", "o", "t", "a", "l">>>>,
       <<<<"3">>, None, None, None, None, <<"x">>, <<"n", "/", "a">>, <<"-", "-">>>> >>

\* a line of three cells
Table_short_row ==
    << <<<<"I", "t", "e", "m">>, <<"C", "o", "d", "i", "g", "o">>, <<"N", "o", "m", "b", "r", "e">>>>,
       <<<<"1">>, <<"8", "9", "0", "2", "0", "1">>, <<"C", "O", "N", "S", "U", "L", "T", "A">>>> >>

\* a table that is not of lines
Table_other ==
    << <<<<"a">>, <<"b">>>>,
       <<<<"1">>, <<"2">>>> >>

SamplePdfTables ==
    {<<>>, <<Table_lines>>, <<Table_no_total>>, <<Table_unparseable>>, <<Table_short_row>>,
     <<Table_other, Table_lines, Table_no_total>>}

Value_1_234_56 == <<"$", "1", ".", "2", "3", "4", ",", "5", "6">>

Value_COP == <<"C", "O", "P", " ", "1", ".", "2", "3", "4", ",", "5", "6", " ">>

Value_letters == <<"1", "2", "a", "4", "5">>

Value_blank == <<" ", " ">>

SampleValues == {None, Value_1_234_56, Value_COP, Value_letters, Value_blank}

\* the characters of the values tried in every arrangement
ValueChars == {"$", " ", ".", ",", "1", "0", "x"}

\* longest such value
MaxChars == 4

InitInvoiceParser ==
    /\ \/ \E date_lines \in SampleDateLines, total_lines \in SampleTotalLines :
             \E pdf_tables \in SamplePdfTables :
                args = [op |-> "parse", raw_text |-> date_lines \o total_lines,
                        pdf_tables |-> pdf_tables]
       \/ \E raw_value \in SampleValues :
             args = [op |-> "_parse_decimal", raw_value |-> raw_value]
       \/ \E n \in 0..MaxChars : \E raw_value \in [1..n -> ValueChars] :
             args = [op |-> "_parse_decimal", raw_value |-> raw_value]
    /\ call = NoCall
    /\ self = <<>>
    /\ first = FALSE
    /\ messages = <<>>
    /\ tables = <<>>

\* InvoiceParser(path).parse() on a PDF with that text and those tables
Parse ==
    /\ call = NoCall
    /\ args.op = "parse"
    /\ LET result == parse(args.raw_text, args.pdf_tables)
       IN  call' = [op |-> "parse", ret |-> result.ret, raised |-> result.raised,
                    memo |-> NoMemo]
    /\ UNCHANGED <<self, first, args, messages, tables>>

\* InvoiceParser._parse_decimal(raw_value)
ParseDecimal ==
    /\ call = NoCall
    /\ args.op = "_parse_decimal"
    /\ call' = [op |-> "_parse_decimal", ret |-> _parse_decimal(args.raw_value),
                raised |-> "none", memo |-> NoMemo]
    /\ UNCHANGED <<self, first, args, messages, tables>>

NextInvoiceParser == Parse \/ ParseDecimal

SpecInvoiceParser == InitInvoiceParser /\ [][NextInvoiceParser]_vars

Parsed == call.op = "parse"

DateFound == _extract_issue_date(args.raw_text).raised = "none"

\* C21: the issue date is that of the first of the four format/pattern pairs, in their
\* order, that yields a date, and the extraction raises when none does; it is the only
\* step that raises: whenever a date is found, parse returns an invoice with that date,
\* whatever the rest of the text and the rows of the tables hold.
C21_OnlyFatalStep ==
    Parsed =>
        /\ DateFound =>
              /\ call.raised = "none"
              /\ call.ret.issue_date = _extract_issue_date(args.raw_text).ret
        /\ ~DateFound => call.raised = "ValueError"

LabelAmount(label) == _extract_amount_after_label(text_lines_of(args.raw_text), label)

\* C22: the total of the invoice is the amount of the "Total" label when it has one,
\* else the amount of the "Subtotal" label when it has one, else the sum of the line
\* totals when there are lines, else zero; a later source is used only when every
\* earlier one yielded no amount.
C22_TotalResolution ==
    (Parsed /\ call.raised = "none") =>
        call.ret.total_amount =
            IF LabelAmount(TotalLabel) # <<>> THEN Hundredths(LabelAmount(TotalLabel)[1])
            ELSE IF LabelAmount(SubtotalLabel) # <<>>
            THEN Hundredths(LabelAmount(SubtotalLabel)[1])
            ELSE IF call.ret.lines # <<>> THEN line_sum(call.ret.lines)
            ELSE 0

IsSeparator(c) == c = "." \/ c = ","

\* the value without the currency symbol and the spaces
Bare(raw_value) == SelectSeq(raw_value, LAMBDA c : c # "$" /\ c # " ")

LastSeparator(t) ==
    IF \E i \in 1..Len(t) : IsSeparator(t[i])
    THEN CHOOSE i \in 1..Len(t) : IsSeparator(t[i]) /\ \A j \in (i + 1)..Len(t) : ~IsSeparator(t[j])
    ELSE Len(t) + 1

\* the number a value of digits, separators, "$" and spaces writes: the digits before
\* the last separator are the whole part, those after it the decimals
Written(raw_value) ==
    LET t == Bare(raw_value)
    IN  Dec(ParseNat(SelectSeq(t, IsDigit)), Len(SubSeq(t, LastSeparator(t) + 1, Len(t))))

OfAmountChars(raw_value) ==
    /\ raw_value # None
    /\ \A i \in 1..Len(raw_value) : IsAmountChar(raw_value[i]) \/ raw_value[i] \in {"$", " "}

IsDecimal(d) == d.unscaled \in Int /\ d.scale \in Nat

\* C23: _parse_decimal returns a Decimal for every value; zero for None and for a blank
\* value; for a value of digits, separators, the currency symbol and spaces, the number
\* whose decimals are the digits after the last separator, so "$1.234,56" is 1234.56.
C23_Normalizer ==
    call.op = "_parse_decimal" =>
        /\ call.raised = "none"
        /\ IsDecimal(call.ret)
        /\ (args.raw_value = None \/ Strip(args.raw_value) = <<>>) => call.ret = Dec(0, 0)
        /\ OfAmountChars(args.raw_value) => DecEq(call.ret, Written(args.raw_value))
        /\ args.raw_value = Value_1_234_56 => DecEq(call.ret, Dec(123456, 2))
        /\ args.raw_value = Value_COP => DecEq(call.ret, Dec(123456, 2))

C23_Witness ==
    /\ call.op = "_parse_decimal"
    /\ args.raw_value = Value_1_234_56
    /\ call.ret = Dec(123456, 2)

(***************************************************************************)
(* history_parser.py: HistoryParser on the text of a PDF.                  *)
(* A regular expression is the sequence of its elements: a literal, a      *)
(* choice of literals, a repeated character class, a word boundary.        *)
(***************************************************************************)
Lit(text) == [kind |-> "lit", text |-> text, ignorecase |-> FALSE]

\* a literal under re.IGNORECASE
LitI(text) == [kind |-> "lit", text |-> text, ignorecase |-> TRUE]

Alt(options) == [kind |-> "alt", options |-> options]

\* min to max characters of a class, max <<>> when unbounded; greedy unless lazy
Rep(class, min, max, lazy) ==
    [kind |-> "rep", class |-> class, min |-> min, max |-> max, lazy |-> lazy]

WordBoundary == [kind |-> "b"]

\* the end of the text
End == [kind |-> "end"]

IsLetter(c) ==
    \E n \in 1..Len(UpperLetters) : UpperLetters[n] = c \/ LowerLetters[n] = c

IsAsciiUpper(c) == \E n \in 1..26 : UpperLetters[n] = c

IsAsciiLetter(c) == \E n \in 1..26 : UpperLetters[n] = c \/ LowerLetters[n] = c

\* \w
IsWord(c) == IsLetter(c) \/ IsDigit(c) \/ c = "_"

InClass(class, c) ==
    CASE class = "\\s" -> IsWhitespace(c) \/ c = Newline
      [] class = "\\S" -> ~(IsWhitespace(c) \/ c = Newline)
      [] class = "-" -> c = "-"
      [] class = "\\d" -> IsDigit(c)
      [] class = "." -> TRUE
      [] class = "[^\\n]" -> c # Newline
      [] class = "[A-Z]" -> IsAsciiUpper(c)
      [] class = "[A-Z0-9]" -> IsAsciiUpper(c) \/ IsDigit(c)
      [] class = "[0-9A-Za-z]" -> IsAsciiLetter(c) \/ IsDigit(c)
      [] class = "[0-9A-Za-z-]" -> IsAsciiLetter(c) \/ IsDigit(c) \/ c = "-"
      [] class = "[0-9/: -]" -> IsDigit(c) \/ c \in {"/", ":", " ", "-"}

\* the literal is at pos
LiteralAt(text, pos, literal, ignorecase) ==
    /\ pos + Len(literal) - 1 <= Len(text)
    /\ IF ignorecase
       THEN \A j \in 1..Len(literal) : LowerChar(text[pos + j - 1]) = LowerChar(literal[j])
       ELSE \A j \in 1..Len(literal) : text[pos + j - 1] = literal[j]

\* \b before the character at pos
BoundaryAt(text, pos) ==
    (pos > 1 /\ IsWord(text[pos - 1])) # (pos <= Len(text) /\ IsWord(text[pos]))

\* the most characters a run can take: those left, max at most
Most(left, max) == IF max = <<>> \/ left <= max[1] THEN left ELSE max[1]

\* the number of characters of the class from pos on, max at most
RunFrom(text, pos, class, max) ==
    CHOOSE n \in 0..Most(Len(text) - pos + 1, max) :
        /\ \A i \in pos..(pos + n - 1) : InClass(class, text[i])
        /\ n = Most(Len(text) - pos + 1, max) \/ ~InClass(class, text[pos + n])

\* the first of two results: a when there is one, else b
OrElse(a, b) == IF a # <<>> THEN a ELSE b

\* an element matched up to pos, then the rest of the elements
Matched(pos, rest) == IF rest = <<>> THEN <<>> ELSE << <<pos>> \o rest[1] >>

\* Of the ways to match an element, each <<what ranks it, how long it is, the match of
\* the rest>>, the one of the least rank: the element up to there, then the rest.
Preferred(pos, ways) ==
    IF ways = {} THEN <<>>
    ELSE LET w == CHOOSE m \in ways : \A o \in ways : m[1] <= o[1]
         IN  << <<pos + w[2]>> \o w[3][1] >>

RECURSIVE match(_, _, _, _)

\* The elements from the k-th on matched at pos as the backtracking matcher of re
\* does: <<>> without match, else <<ends>>, ends[j] the position after the j-th of
\* these elements. An alternation prefers its options in their order; a repetition
\* prefers the longest run when greedy, the shortest when lazy.
match(elems, k, text, pos) ==
    IF k > Len(elems) THEN << <<>> >>
    ELSE CASE elems[k].kind = "lit" ->
                 IF LiteralAt(text, pos, elems[k].text, elems[k].ignorecase)
                 THEN Matched(pos + Len(elems[k].text),
                              match(elems, k + 1, text, pos + Len(elems[k].text)))
                 ELSE <<>>
           [] elems[k].kind = "b" ->
                 IF BoundaryAt(text, pos) THEN Matched(pos, match(elems, k + 1, text, pos))
                 ELSE <<>>
           [] elems[k].kind = "end" ->
                 IF pos = Len(text) + 1 THEN Matched(pos, match(elems, k + 1, text, pos))
                 ELSE <<>>
           [] elems[k].kind = "alt" ->
                 Preferred(pos,
                     {w \in {<<n, Len(elems[k].options[n]),
                               IF LiteralAt(text, pos, elems[k].options[n], FALSE)
                               THEN match(elems, k + 1, text, pos + Len(elems[k].options[n]))
                               ELSE <<>>>> : n \in 1..Len(elems[k].options)} :
                         w[3] # <<>>})
           [] elems[k].kind = "rep" ->
                 Preferred(pos,
                     {w \in {<<IF elems[k].lazy THEN c ELSE 0 - c, c,
                               match(elems, k + 1, text, pos + c)>> :
                                 c \in elems[k].min..RunFrom(text, pos, elems[k].class,
                                                              elems[k].max)} :
                         w[3] # <<>>})

\* the leftmost of the matches found, each <<where it starts, what match gives>>
Leftmost(found) ==
    IF found = {} THEN <<>>
    ELSE LET f == CHOOSE m \in found : \A o \in found : m[1] <= o[1]
         IN  <<[start |-> f[1], ends |-> f[2][1]]>>

\* re.search from the position start on: <<>> or <<m>>, m.start where the leftmost
\* match begins, m.ends as match gives them
re_search(elems, text, start) ==
    Leftmost({f \in {<<i, match(elems, 1, text, i)>> : i \in start..(Len(text) + 1)} :
                f[2] # <<>>})

\* what the elements a to b of the pattern matched: match.group(n) of the group they make
group(text, m, a, b) ==
    SubSeq(text, IF a = 1 THEN m.start ELSE m.ends[a - 1], m.ends[b] - 1)

Whitespace == Rep("\\s", 0, <<>>, FALSE)

OptionalDash == Rep("-", 0, <<1>>, FALSE)

\* the alternatives (CC|TI|RC|CE|PA|NUIP|MS), those of DOCUMENT_TYPES
DOCUMENT_TYPES ==
    <<<<"C", "C">>, <<"T", "I">>, <<"R", "C">>, <<"C", "E">>, <<"P", "A">>,
      <<"N", "U", "I", "P">>, <<"M", "S">>>>

\* r"Identificación:\s*([A-Z]{1,4})\s*-?\s*([0-9A-Za-z-]+)"
LabelledPattern ==
    <<Lit(<<"I", "d", "e", "n", "t", "i", "f", "i", "c", "a", "c", "i", "ó", "n", ":">>), Whitespace,
      Rep("[A-Z]", 1, <<4>>, FALSE), Whitespace, OptionalDash, Whitespace,
      Rep("[0-9A-Za-z-]", 1, <<>>, FALSE)>>

\* r"\b(CC|TI|RC|CE|PA|NUIP|MS)\s*-?\s*([0-9A-Za-z-]{4,})\s*-\s*[A-Z]"
TopPattern ==
    <<WordBoundary, Alt(DOCUMENT_TYPES), Whitespace, OptionalDash, Whitespace,
      Rep("[0-9A-Za-z-]", 4, <<>>, FALSE), Whitespace, Lit(<<"-">>), Whitespace,
      Rep("[A-Z]", 1, <<1>>, FALSE)>>

\* r"\b(CC|TI|RC|CE|PA|NUIP|MS)\s*-?\s*([0-9A-Za-z-]{4,})\b"
GenericPattern ==
    <<WordBoundary, Alt(DOCUMENT_TYPES), Whitespace, OptionalDash, Whitespace,
      Rep("[0-9A-Za-z-]", 4, <<>>, FALSE), WordBoundary>>

\* the pair (document type, document number)
document_info(text, labelled, top_match, generic) ==
    IF labelled # <<>>
    THEN <<group(text, labelled[1], 3, 3), group(text, labelled[1], 7, 7)>>
    ELSE IF top_match # <<>>
    THEN <<group(text, top_match[1], 2, 2), group(text, top_match[1], 6, 6)>>
    ELSE IF generic # <<>>
    THEN <<group(text, generic[1], 2, 2), group(text, generic[1], 6, 6)>>
    ELSE <<None, None>>

_extract_document_info(text) ==
    document_info(text, re_search(LabelledPattern, text, 1),
                  re_search(TopPattern, text, 1), re_search(GenericPattern, text, 1))

RECURSIVE JoinLines(_)
\* "\n".join(lines)
JoinLines(lines) ==
    IF lines = <<>> THEN <<>>
    ELSE IF Len(lines) = 1 THEN lines[1]
    ELSE lines[1] \o <<Newline>> \o JoinLines(Tail(lines))

\* the stripped lines of the text that are not empty, joined again
normalized_text_of(raw_text) == JoinLines(text_lines_of(raw_text))

RECURSIVE split_on(_, _, _)
\* str.split(separator), the empty pieces kept; piece is the piece being read
split_on(t, separator, piece) ==
    IF t = <<>> THEN <<piece>>
    ELSE IF Head(t) = separator THEN <<piece>> \o split_on(Tail(t), separator, <<>>)
    ELSE split_on(Tail(t), separator, Append(piece, Head(t)))

RECURSIVE pieces_from(_, _)
\* the pieces of t between runs of whitespace, from the position pos on
pieces_from(t, pos) ==
    LET starts == {i \in pos..Len(t) : ~InClass("\\s", t[i])}
        i == CHOOSE k \in starts : \A j \in starts : k <= j
        past == i + RunFrom(t, i, "\\S", <<>>)
    IN  IF starts = {} THEN <<>>
        ELSE <<SubSeq(t, i, past - 1)>> \o pieces_from(t, past)

\* str.split()
split(t) == pieces_from(t, 1)

\* str.strip() on a text of several lines
strip(t) ==
    LET kept == {i \in 1..Len(t) : ~InClass("\\s", t[i])}
    IN  IF kept = {} THEN <<>>
        ELSE SubSeq(t, CHOOSE i \in kept : \A j \in kept : i <= j,
                       CHOOSE i \in kept : \A j \in kept : i >= j)

\* a number of one to most digits
IsNumber(t, least, most) ==
    Len(t) \in least..most /\ \A i \in 1..Len(t) : IsDigit(t[i])

\* A format of strptime: the separator and the order of the fields of the date, the
\* digits of the year, the number of fields of the time (0 when it has none).
Format(separator, year_first, year_digits, time_fields) ==
    [separator |-> separator, year_first |-> year_first, year_digits |-> year_digits,
     time_fields |-> time_fields]

\* ("%d/%m/%Y %H:%M:%S", "%d/%m/%Y %H:%M", "%d-%m-%Y %H:%M:%S", "%d/%m/%y %H:%M:%S")
DATE_FORMATS ==
    <<Format("/", FALSE, 4, 3), Format("/", FALSE, 4, 2), Format("-", FALSE, 4, 3),
      Format("/", FALSE, 2, 3)>>

\* ("%d/%m/%Y", "%d-%m-%Y", "%Y-%m-%d")
JUST_DATE_FORMATS ==
    <<Format("/", FALSE, 4, 0), Format("-", FALSE, 4, 0), Format("-", TRUE, 4, 0)>>

\* the year a format reads: %Y as written, %y in 1969..2068
year_of(written, year_digits) ==
    IF year_digits = 4 THEN written
    ELSE IF written < 69 THEN 2000 + written
    ELSE 1900 + written

\* the fields of a time within 0..23, 0..59, 0..61
IsTime(time) ==
    \A n \in 1..Len(time) :
        IsNumber(time[n], 1, 2) /\ ParseNat(time[n]) <= <<23, 59, 61>>[n]

\* the datetime of the numbers read, kept to the hour, when they make a date
date_read(day, month, year, time) ==
    IF year >= 1 /\ month \in 1..12 /\ day \in 1..DaysIn(month, year) /\ IsTime(time)
    THEN <<Date(year, month, day, IF time = <<>> THEN 0 ELSE ParseNat(time[1]))>>
    ELSE <<>>

\* the three fields of the date and the fields of the time, when they are numbers of
\* the widths of the format
fields_read(day, month, written, time, fmt) ==
    IF /\ IsNumber(day, 1, 2) /\ IsNumber(month, 1, 2)
       /\ IsNumber(written, fmt.year_digits, fmt.year_digits)
       /\ Len(time) = fmt.time_fields
    THEN date_read(ParseNat(day), ParseNat(month),
                   year_of(ParseNat(written), fmt.year_digits), time)
    ELSE <<>>

\* the date and the time split at their separators
parts_read(date, time, fmt) ==
    IF Len(date) # 3 THEN <<>>
    ELSE fields_read(IF fmt.year_first THEN date[3] ELSE date[1], date[2],
                     IF fmt.year_first THEN date[1] ELSE date[3], time, fmt)

\* the value split at whitespace: a date, and a time when the format has one
value_read(parts, fmt) ==
    IF Len(parts) # (IF fmt.time_fields = 0 THEN 1 ELSE 2) THEN <<>>
    ELSE parts_read(split_on(parts[1], fmt.separator, <<>>),
                    IF fmt.time_fields = 0 THEN <<>> ELSE split_on(parts[2], ":", <<>>),
                    fmt)

\* datetime.strptime(value, fmt): <<>> for ValueError, else <<the datetime>>, kept to
\* the hour (the times of the texts considered are on the hour)
strptime_format(value, fmt) == value_read(split(value), fmt)

\* the first of the formats from the n-th on that reads the value
RECURSIVE first_format(_, _, _)
first_format(value, formats, n) ==
    IF n > Len(formats) THEN <<>>
    ELSE OrElse(strptime_format(value, formats[n]), first_format(value, formats, n + 1))

\* r"Fecha y Hora:\s*([0-9/: -]+)", under re.IGNORECASE
SectionDatePattern ==
    <<LitI(<<"F", "e", "c", "h", "a", " ", "y", " ", "H", "o", "r", "a", ":">>), Whitespace, Rep("[0-9/: -]", 1, <<>>, FALSE)>>

\* the date alone of a candidate no format with a time reads: its first piece, read
\* with the formats without a time; candidate.split()[0] of a blank candidate is an
\* IndexError
date_alone(pieces) ==
    IF pieces = <<>> THEN [ret |-> None, raised |-> "IndexError"]
    ELSE [ret |-> OrElse(first_format(pieces[1], JUST_DATE_FORMATS, 1), <<None>>)[1],
          raised |-> "none"]

\* the datetime the formats with a time read, else the date alone
datetime_read(candidate, read) ==
    IF read # <<>> THEN [ret |-> read[1], raised |-> "none"]
    ELSE date_alone(split(candidate))

\* the datetime of a candidate
datetime_of(candidate) ==
    datetime_read(candidate, first_format(candidate, DATE_FORMATS, 1))

\* the datetime of what the pattern found, None when it found nothing
datetime_found(text, found) ==
    IF found = <<>> THEN [ret |-> None, raised |-> "none"]
    ELSE datetime_of(strip(group(text, found[1], 3, 3)))

\* None when nothing is found or read
_extract_datetime(text, pattern) == datetime_found(text, re_search(pattern, text, 1))

\* the bullet U+2022 of the sections, written "*" in the texts considered
Bullet == "*"

RECURSIVE sections_from(_, _)
\* the pieces of the text between bullets, each bullet with the whitespace after it,
\* from the position pos on
sections_from(text, pos) ==
    LET bullets == {i \in pos..Len(text) : text[i] = Bullet}
        i == CHOOSE k \in bullets : \A j \in bullets : k <= j
    IN  IF bullets = {} THEN <<SubSeq(text, pos, Len(text))>>
        ELSE <<SubSeq(text, pos, i - 1)>>
                 \o sections_from(text, i + 1 + RunFrom(text, i + 1, "\\s", <<>>))

\* re.split of the text at every bullet and the whitespace after it
split_sections(text) == sections_from(text, 1)

\* r"Tipo de Consulta:\s*\(([0-9A-Za-z]+)\)\s*([^\n]+)"
TipoPattern ==
    <<Lit(<<"T", "i", "p", "o", " ", "d", "e", " ", "C", "o", "n", "s", "u", "l", "t", "a", ":">>), Whitespace, Lit(<<"(">>), Rep("[0-9A-Za-z]", 1, <<>>, FALSE),
      Lit(<<")">>), Whitespace, Rep("[^\\n]", 1, <<>>, FALSE)>>

\* r"Cod:\s*([A-Z0-9]+)\s+Nomb:\s*(.+?)(?:\s+Cant:|\s+DXP:|\s+DXR:|\s+Descripción:)",
\* under re.DOTALL
CodPattern ==
    <<Lit(<<"C", "o", "d", ":">>), Whitespace, Rep("[A-Z0-9]", 1, <<>>, FALSE),
      Rep("\\s", 1, <<>>, FALSE), Lit(<<"N", "o", "m", "b", ":">>), Whitespace,
      Rep(".", 1, <<>>, TRUE), Rep("\\s", 1, <<>>, FALSE),
      Alt(<<<<"C", "a", "n", "t", ":">>, <<"D", "X", "P", ":">>, <<"D", "X", "R", ":">>,
            <<"D", "e", "s", "c", "r", "i", "p", "c", "i", "ó", "n", ":">>>>)>>

RECURSIVE finditer(_, _, _)
RECURSIVE matches_after(_, _, _)

\* re.finditer: the matches from the position start on, none overlapping another
finditer(elems, text, start) == matches_after(elems, text, re_search(elems, text, start))

\* the match found, then those after it
matches_after(elems, text, found) ==
    IF found = <<>> THEN <<>>
    ELSE <<found[1]>> \o finditer(elems, text, found[1].ends[Len(elems)])

\* the fields of ConsultationInfo the section and the match give; the purpose and the
\* authorization, read from the section as the datetime is, are left out
ConsultationFound(code, description, datetime) ==
    [code |-> code, description |-> description, datetime |-> datetime]

\* the consultations of the first loop of a section, one per match
tipo_found(section, matches, section_datetime) ==
    [n \in 1..Len(matches) |->
        ConsultationFound(group(section, matches[n], 4, 4),
                          strip(group(section, matches[n], 7, 7)), section_datetime)]

\* the consultations of the second loop of a section, one per match
cod_found(section, matches, section_datetime) ==
    [n \in 1..Len(matches) |->
        ConsultationFound(group(section, matches[n], 3, 3),
                          JoinSpace(split(group(section, matches[n], 7, 7))),
                          section_datetime)]

\* the consultations of one section, before any is dropped: those of the first loop,
\* then those of the second
found_in(section, section_datetime) ==
    tipo_found(section, finditer(TipoPattern, section, 1), section_datetime)
        \o cod_found(section, finditer(CodPattern, section, 1), section_datetime)

RECURSIVE keep_unseenMutant(_, _)
keep_unseenMutant(found, seen_keys) ==
    IF found = <<>> THEN <<>>
    ELSE IF <<Head(found).code, Head(found).datetime>> \in seen_keys
            /\ Head(found).datetime # None
    THEN keep_unseenMutant(Tail(found), seen_keys)
    ELSE <<Head(found)>> \o keep_unseenMutant(Tail(found),
             seen_keys \cup {<<Head(found).code, Head(found).datetime>>})

RECURSIVE keep_unseen(_, _)
\* `if key in seen_keys: continue`, else the key is added and the consultation appended
keep_unseen(found, seen_keys) ==
    IF found = <<>> THEN <<>>
    ELSE IF <<Head(found).code, Head(found).datetime>> \in seen_keys
    THEN keep_unseen(Tail(found), seen_keys)
    ELSE <<Head(found)>> \o keep_unseen(Tail(found),
             seen_keys \cup {<<Head(found).code, Head(found).datetime>>})

RECURSIVE found_in_sections(_)
RECURSIVE found_from(_, _)

\* the consultations of a section that is not blank, then those of the sections after
\* it
found_with(found, rest) ==
    [ret |-> found \o rest.ret, raised |-> rest.raised]

\* a section that is not blank, with its datetime, then the sections after it
found_dated(section, section_datetime, sections) ==
    IF section_datetime.raised # "none"
    THEN [ret |-> <<>>, raised |-> section_datetime.raised]
    ELSE found_with(found_in(section, section_datetime.ret), found_in_sections(sections))

\* a stripped section, then the sections after it; a section is skipped when blank
found_from(section, sections) ==
    IF section = <<>> THEN found_in_sections(sections)
    ELSE found_dated(section, _extract_datetime(section, SectionDatePattern), sections)

\* the consultations of the sections in their order
found_in_sections(sections) ==
    IF sections = <<>> THEN [ret |-> <<>>, raised |-> "none"]
    ELSE found_from(strip(Head(sections)), Tail(sections))

\* the consultations found, one kept per key
consultations_kept(found) ==
    IF found.raised # "none" THEN found
    ELSE [ret |-> keep_unseen(found.ret, {}), raised |-> "none"]

_extract_consultations(text) == consultations_kept(found_in_sections(split_sections(text)))

\* The text of a history: a line with the identity, then the sections.
Identity_labelled ==
    <<"I", "d", "e", "n", "t", "i", "f", "i", "c", "a", "c", "i", "ó", "n", ":", " ", "C", "C",
      " ", "1", "2", "3", "4", "5", "6", "7", "8", "\n">>

Identity_labelled_NIT ==
    <<"I", "d", "e", "n", "t", "i", "f", "i", "c", "a", "c", "i", "ó", "n", ":", " ", "N", "I",
      "T", " ", "9", "0", "0", "1", "2", "3", "4", "5", "6", "\n">>

Identity_labelled_long ==
    <<"I", "d", "e", "n", "t", "i", "f", "i", "c", "a", "c", "i", "ó", "n", ":", " ", "A", "B",
      "C", "D", "E", "\n">>

Identity_top ==
    <<"C", "C", " ", "1", "2", "3", "4", "5", "6", "7", "8", " ", "-", " ", "A", "N", "A", " ",
      "R", "U", "I", "Z", "\n">>

Identity_generic ==
    <<"P", "a", "c", "i", "e", "n", "t", "e", " ", "T", "I", "-", "9", "9", "8", "8", "7", "7",
      "6", "6", "\n">>

Identity_generic_then_labelled ==
    <<"T", "I", " ", "9", "9", "8", "8", "7", "7", "6", "6", " ", "I", "d", "e", "n", "t", "i",
      "f", "i", "c", "a", "c", "i", "ó", "n", ":", " ", "C", "C", " ", "1", "2", "3", "4",
      "\n">>

Identity_generic_then_top ==
    <<"R", "C", " ", "4", "4", "5", "5", "6", "6", "7", " ", "y", " ", "C", "E", " ", "7", "7",
      "8", "8", "9", "9", " ", "-", " ", "B", "\n">>

Identity_none ==
    <<"H", "i", "s", "t", "o", "r", "i", "a", " ", "c", "l", "i", "n", "i", "c", "a", "\n">>

Identity_labelled_dash ==
    <<"I", "d", "e", "n", "t", "i", "f", "i", "c", "a", "c", "i", "ó", "n", ":", " ", "T", "I",
      " ", "-", " ", "1", "0", "2", "0", "3", "0", "4", "0", "5", "0", "\n">>

Identity_short ==
    <<"P", "A", " ", "1", "2", "3", "\n">>

SampleIdentityLines ==
    {Identity_labelled, Identity_labelled_NIT, Identity_labelled_long, Identity_top,
     Identity_generic, Identity_generic_then_labelled, Identity_generic_then_top, Identity_none,
     Identity_labelled_dash, Identity_short}

Section_tipo ==
    <<"*", " ", "F", "e", "c", "h", "a", " ", "y", " ", "H", "o", "r", "a", ":", " ", "1", "5",
      "/", "0", "6", "/", "2", "0", "2", "0", " ", "1", "0", ":", "0", "0", "\n", "T", "i",
      "p", "o", " ", "d", "e", " ", "C", "o", "n", "s", "u", "l", "t", "a", ":", " ", "(", "8",
      "9", "0", "2", "0", "1", ")", " ", "P", "R", "I", "M", "E", "R", "A", " ", "V", "E", "Z",
      "\n">>

Section_cod_then_tipo ==
    <<"*", " ", "F", "e", "c", "h", "a", " ", "y", " ", "H", "o", "r", "a", ":", " ", "1", "5",
      "/", "0", "6", "/", "2", "0", "2", "0", " ", "1", "0", ":", "0", "0", ":", "0", "0",
      "\n", "C", "o", "d", ":", " ", "8", "9", "0", "2", "0", "1", " ", "N", "o", "m", "b",
      ":", " ", "C", "O", "N", "S", "U", "L", "T", "A", " ", " ", "G", "E", "N", "E", "R", "A",
      "L", " ", "C", "a", "n", "t", ":", " ", "1", "\n", "T", "i", "p", "o", " ", "d", "e",
      " ", "C", "o", "n", "s", "u", "l", "t", "a", ":", " ", "(", "8", "9", "0", "2", "0", "1",
      ")", " ", "C", "O", "N", "T", "R", "O", "L", "\n">>

Section_tipo_undated ==
    <<"*", " ", "T", "i", "p", "o", " ", "d", "e", " ", "C", "o", "n", "s", "u", "l", "t", "a",
      ":", " ", "(", "8", "9", "0", "3", "0", "1", ")", " ", "S", "I", "N", " ", "F", "E", "C",
      "H", "A", "\n">>

Section_cod_undated ==
    <<"*", " ", "C", "o", "d", ":", " ", "8", "9", "0", "3", "0", "1", " ", "N", "o", "m", "b",
      ":", " ", "U", "R", "G", "E", "N", "C", "I", "A", "S", " ", "D", "X", "P", ":", " ", "A",
      "0", "9", "\n">>

Section_cod_twice ==
    <<"*", " ", "F", "e", "c", "h", "a", " ", "y", " ", "H", "o", "r", "a", ":", " ", "1", "6",
      "/", "0", "6", "/", "2", "0", "2", "0", "\n", "C", "o", "d", ":", " ", "8", "9", "0",
      "2", "0", "1", " ", "N", "o", "m", "b", ":", " ", "O", "T", "R", "A", " ", "C", "a", "n",
      "t", ":", " ", "1", "\n", "C", "o", "d", ":", " ", "8", "9", "0", "2", "0", "1", " ",
      "N", "o", "m", "b", ":", " ", "R", "E", "P", "E", "T", "I", "D", "A", " ", "C", "a", "n",
      "t", ":", " ", "1", "\n">>

Section_blank_date ==
    <<"*", " ", "F", "e", "c", "h", "a", " ", "y", " ", "H", "o", "r", "a", ":", " ", " ", "p",
      "e", "n", "d", "i", "e", "n", "t", "e", "\n", "T", "i", "p", "o", " ", "d", "e", " ",
      "C", "o", "n", "s", "u", "l", "t", "a", ":", " ", "(", "8", "9", "0", "2", "0", "1", ")",
      " ", "X", "\n">>

SampleSections ==
    {Section_tipo, Section_cod_then_tipo, Section_tipo_undated,
     Section_cod_undated, Section_cod_twice, Section_blank_date}

\* largest number of sections of a history
MaxSections == 2

RECURSIVE Concat(_)
Concat(texts) == IF texts = <<>> THEN <<>> ELSE Head(texts) \o Concat(Tail(texts))

InitHistory ==
    /\ \/ \E identity \in SampleIdentityLines : args = [raw_text |-> identity]
       \/ \E n \in 1..MaxSections : \E sections \in [1..n -> SampleSections] :
             args = [raw_text |-> Identity_labelled \o Concat(sections)]
    /\ call = NoCall
    /\ self = <<>>
    /\ first = FALSE
    /\ messages = <<>>
    /\ tables = <<>>

\* the fields of PatientInfo that HistoryParser.parse reads with
\* _extract_document_info and _extract_consultations
parsed_history(info, consultations) ==
    IF consultations.raised # "none" THEN [ret |-> <<>>, raised |-> consultations.raised]
    ELSE [ret |-> [document_type |-> info[1], document_number |-> info[2],
                   consultations |-> consultations.ret],
          raised |-> "none"]

\* the same, of the normalized text
parse_normalized(normalized_text) ==
    parsed_history(_extract_document_info(normalized_text),
                   _extract_consultations(normalized_text))

parse_history(raw_text) == parse_normalized(normalized_text_of(raw_text))

\* HistoryParser(path).parse() on a PDF with that text
ParseHistory ==
    /\ call = NoCall
    /\ LET result == parse_history(args.raw_text)
       IN  call' = [op |-> "parse_history", ret |-> result.ret, raised |-> result.raised,
                    memo |-> NoMemo]
    /\ UNCHANGED <<self, first, args, messages, tables>>

NextHistory == ParseHistory

SpecHistory == InitHistory /\ [][NextHistory]_vars

HistoryParsed == call.op = "parse_history" /\ call.raised = "none"

NormalizedText == normalized_text_of(args.raw_text)

\* the variants in their priority order, each with the elements of its two groups
Variants == <<<<LabelledPattern, 3, 7>>, <<TopPattern, 2, 6>>, <<GenericPattern, 2, 6>>>>

VariantMatches(n) == re_search(Variants[n][1], NormalizedText, 1) # <<>>

VariantGroup(n, g) ==
    LET m == re_search(Variants[n][1], NormalizedText, 1)[1]
    IN  group(NormalizedText, m, Variants[n][g + 1], Variants[n][g + 1])

\* C25: the document type and number are those of the first of the three variants, in
\* their priority order, that matches, both None when none does; the type is one of
\* CC, TI, RC, CE, PA, NUIP, MS or None, whichever variant matched.
C25_DocumentInfo ==
    HistoryParsed =>
        /\ \A n \in 1..3 :
              (VariantMatches(n) /\ \A o \in 1..(n - 1) : ~VariantMatches(o)) =>
                  /\ call.ret.document_type = VariantGroup(n, 1)
                  /\ call.ret.document_number = VariantGroup(n, 2)
        /\ (\A n \in 1..3 : ~VariantMatches(n)) =>
              call.ret.document_type = None /\ call.ret.document_number = None
        /\ \/ call.ret.document_type = None
           \/ \E n \in 1..Len(DOCUMENT_TYPES) : call.ret.document_type = DOCUMENT_TYPES[n]

KeyOf(consultation) == <<consultation.code, consultation.datetime>>

NoSharedKey(consultations) ==
    \A a, b \in 1..Len(consultations) :
        KeyOf(consultations[a]) = KeyOf(consultations[b]) => a = b

\* the first of the occurrences with the key of the consultation
FirstWithKey(occurrences, consultation) ==
    occurrences[CHOOSE n \in 1..Len(occurrences) :
                   /\ KeyOf(occurrences[n]) = KeyOf(consultation)
                   /\ \A o \in 1..(n - 1) : KeyOf(occurrences[o]) # KeyOf(consultation)]

\* every match of the two sub-patterns, in the order the extractor reads them: the
\* sections in document order, in a section the "Tipo de Consulta" matches before
\* the "Cod: ... Nomb: ..." matches
ReadingOrder == found_in_sections(split_sections(NormalizedText)).ret

RECURSIVE ByStart(_)
\* the matches, each <<start, consultation>>, by their start
ByStart(matches) ==
    IF matches = {} THEN <<>>
    ELSE LET m == CHOOSE a \in matches : \A b \in matches : a[1] <= b[1]
         IN  <<m[2]>> \o ByStart(matches \ {m})

\* the matches of both sub-patterns in a section, in the order of the text
InTextOrder(section, section_datetime) ==
    LET tipo == finditer(TipoPattern, section, 1)
        cod == finditer(CodPattern, section, 1)
    IN  ByStart({<<tipo[n].start,
                   ConsultationFound(group(section, tipo[n], 4, 4),
                                     strip(group(section, tipo[n], 7, 7)),
                                     section_datetime)>> : n \in 1..Len(tipo)}
                \cup {<<cod[n].start,
                        ConsultationFound(group(section, cod[n], 3, 3),
                                          JoinSpace(split(group(section, cod[n], 7, 7))),
                                          section_datetime)>> : n \in 1..Len(cod)})

RECURSIVE DocumentOrderOf(_)
DocumentOrderOf(sections) ==
    IF sections = <<>> THEN <<>>
    ELSE IF strip(Head(sections)) = <<>> THEN DocumentOrderOf(Tail(sections))
    ELSE InTextOrder(strip(Head(sections)),
                     _extract_datetime(strip(Head(sections)), SectionDatePattern).ret)
             \o DocumentOrderOf(Tail(sections))

\* every match of the two sub-patterns, in document order
DocumentOrder == DocumentOrderOf(split_sections(NormalizedText))

C24_WitnessSameSection ==
    /\ HistoryParsed
    /\ args.raw_text = Identity_labelled \o Section_cod_then_tipo
    /\ Len(call.ret.consultations) = 1
    /\ call.ret.consultations[1] = ReadingOrder[1]
    /\ call.ret.consultations[1] # DocumentOrder[1]

(***************************************************************************)
(* annex_parser.py: RipsJsonAnnexParser on the content of the JSON file.   *)
(***************************************************************************)
Digits(min, max) == Rep("\\d", min, <<max>>, FALSE)

\* the regular expression strptime makes of %Y-%m-%d
DateElems ==
    <<Digits(4, 4), Lit(<<"-">>), Digits(1, 2), Lit(<<"-">>), Digits(1, 2)>>

\* of %H:%M and of :%S
HourMinuteElems == <<Digits(1, 2), Lit(<<":">>), Digits(1, 2)>>

SecondElems == <<Lit(<<":">>), Digits(1, 2)>>

\* A format of _parse_date: the elements of its regular expression, the whole value to
\* be matched, and len(fmt), the characters of the value given to strptime.
\* ("%Y-%m-%d", "%Y-%m-%d %H:%M", "%Y-%m-%d %H:%M:%S", "%Y-%m-%dT%H:%M:%S",
\*  "%Y-%m-%dT%H:%M:%S.%fZ")
AnnexFormats ==
    << [elems |-> DateElems \o <<End>>, len |-> 8],
       [elems |-> DateElems \o <<Rep("\\s", 1, <<>>, FALSE)>> \o HourMinuteElems \o <<End>>,
        len |-> 14],
       [elems |-> DateElems \o <<Rep("\\s", 1, <<>>, FALSE)>> \o HourMinuteElems
                      \o SecondElems \o <<End>>,
        len |-> 17],
       [elems |-> DateElems \o <<Lit(<<"T">>)>> \o HourMinuteElems \o SecondElems \o <<End>>,
        len |-> 17],
       [elems |-> DateElems \o <<Lit(<<"T">>)>> \o HourMinuteElems \o SecondElems
                      \o <<Lit(<<".">>), Digits(1, 6), Lit(<<"Z">>), End>>,
        len |-> 21] >>

\* datetime.strptime(value, fmt): <<>> for ValueError, else <<the datetime>>, kept to
\* the hour
strptime_annex(value, fmt) ==
    LET m == match(fmt.elems, 1, value, 1)
        found == [start |-> 1, ends |-> m[1]]
        field(n) == ParseNat(group(value, found, n, n))
        timed == Len(fmt.elems) > 6
        seconds == Len(fmt.elems) > 10
    IN  IF /\ m # <<>>
           /\ field(1) >= 1
           /\ field(3) \in 1..12
           /\ field(5) \in 1..DaysIn(field(3), field(1))
           /\ timed => field(7) <= 23 /\ field(9) <= 59
           /\ seconds => field(11) <= 61
        THEN <<Date(field(1), field(3), field(5), IF timed THEN field(7) ELSE 0)>>
        ELSE <<>>

\* value[: n]
Prefix(value, n) == SubSeq(value, 1, IF n < Len(value) THEN n ELSE Len(value))

\* value.replace("/", "-")
SlashesToDashes(value) == [i \in 1..Len(value) |-> IF value[i] = "/" THEN "-" ELSE value[i]]

\* the formats from the n-th on, each on the first len(fmt) characters of the value
RECURSIVE parse_date_from(_, _)
parse_date_from(value, n) ==
    IF n > Len(AnnexFormats) THEN None
    ELSE IF strptime_annex(Prefix(value, AnnexFormats[n].len), AnnexFormats[n]) # <<>>
    THEN strptime_annex(Prefix(value, AnnexFormats[n].len), AnnexFormats[n])[1]
    ELSE parse_date_from(value, n + 1)

_parse_date(value) ==
    IF ~Truthy(value) THEN None ELSE parse_date_from(SlashesToDashes(value), 1)

Value_date == <<"2", "0", "2", "0", "-", "0", "6", "-", "1", "5">>

Value_date_slashes == <<"2", "0", "2", "0", "/", "0", "6", "/", "1", "5">>

Value_minutes ==
    <<"2", "0", "2", "0", "-", "0", "6", "-", "1", "5", " ", "1", "0", ":", "0", "0">>

Value_seconds ==
    <<"2", "0", "2", "0", "-", "0", "6", "-", "1", "5", " ", "1", "0", ":", "0", "0", ":", "0", "0">>

Value_T_seconds ==
    <<"2", "0", "2", "0", "-", "0", "6", "-", "1", "5", "T", "1", "0", ":", "0", "0", ":", "0", "0">>

Value_short_month == <<"2", "0", "2", "0", "-", "6", "-", "1", "5">>

Value_short_fields == <<"2", "0", "2", "0", "-", "1", "-", "5">>

Value_short_minutes == <<"2", "0", "2", "0", "-", "1", "0", "-", "5", " ", "1", ":", "0", "0">>

Value_no_date == <<"a", "b", "c">>

Value_no_month == <<"2", "0", "2", "0", "-", "1", "3", "-", "4", "5">>

SampleDateValues ==
    {None, <<>>, Value_date, Value_date_slashes, Value_minutes, Value_seconds,
     Value_T_seconds, Value_short_month, Value_short_fields, Value_short_minutes, Value_no_date, Value_no_month}

\* the values of the dates of the lists of services
SampleServiceDateValues == {None, Value_date, Value_seconds, Value_short_fields}

\* largest number of medications and of other services of an annex
MaxServices == 1

\* An item of "usuarios" with the keys read as dates: "fechaNacimiento", and in
\* "servicios" the "fechaDispensAdmon" of each of "medicamentos" and the
\* "fechaSuministroTecnologia" of each of "otrosServicios".
Usuario(fechaNacimiento, medicamentos, otrosServicios) ==
    [fechaNacimiento |-> fechaNacimiento, medicamentos |-> medicamentos,
     otrosServicios |-> otrosServicios]

InitAnnex ==
    /\ \/ args = [usuarios |-> <<>>]
       \/ \E fechaNacimiento \in SampleDateValues, m, o \in 0..MaxServices :
             \E medicamentos \in [1..m -> SampleServiceDateValues] :
                \E otrosServicios \in [1..o -> SampleServiceDateValues] :
                   args = [usuarios |->
                              <<Usuario(fechaNacimiento, medicamentos, otrosServicios)>>]
    /\ call = NoCall
    /\ self = <<>>
    /\ first = FALSE
    /\ messages = <<>>
    /\ tables = <<>>

\* the dates of the AnnexData that RipsJsonAnnexParser.parse makes of the first of
\* "usuarios": of its patient, of its medications and of its other services
parse_annex(data) ==
    IF data.usuarios = <<>>
    THEN [birth_date |-> None, administration_dates |-> <<>>, service_dates |-> <<>>]
    ELSE LET usuario == data.usuarios[1]
         IN  [birth_date |-> _parse_date(usuario.fechaNacimiento),
              administration_dates |->
                  [n \in 1..Len(usuario.medicamentos) |-> _parse_date(usuario.medicamentos[n])],
              service_dates |->
                  [n \in 1..Len(usuario.otrosServicios) |->
                      _parse_date(usuario.otrosServicios[n])]]

\* RipsJsonAnnexParser(path).parse() on a file with that content
ParseAnnex ==
    /\ call = NoCall
    /\ call' = [op |-> "parse_annex", ret |-> parse_annex(args), raised |-> "none",
                memo |-> NoMemo]
    /\ UNCHANGED <<self, first, args, messages, tables>>

NextAnnex == ParseAnnex

SpecAnnex == InitAnnex /\ [][NextAnnex]_vars

\* the value, with "/" for "-" or not, is wholly in the n-th format
InFormat(value, n) == strptime_annex(SlashesToDashes(value), AnnexFormats[n]) # <<>>

\* the value is in one of the four formats YYYY-MM-DD, YYYY-MM-DD HH:MM,
\* YYYY-MM-DD HH:MM:SS, YYYY-MM-DDTHH:MM:SS
Supported(value) == Truthy(value) /\ \E n \in 1..4 : InFormat(value, n)

\* the date/time a supported value writes
DateWritten(value) ==
    strptime_annex(SlashesToDashes(value),
                   AnnexFormats[CHOOSE n \in 1..4 : InFormat(value, n)])[1]

\* the date of a field is the one its value writes, None when it writes none
DateRead(value, date) ==
    /\ Supported(value) => date = DateWritten(value)
    /\ (~Truthy(value) \/ \A n \in 1..5 : ~InFormat(value, n)) => date = None

\* C26: the birth date, the administration date of every medication and the date of
\* every other service are read through the list of formats: a value in one of the
\* four formats, with "/" for "-" or not, gives that date/time; an absent, empty or
\* unparseable value gives None, and nothing is raised.
C26_AnnexDates ==
    (call.op = "parse_annex" /\ args.usuarios # <<>>) =>
        /\ call.raised = "none"
        /\ DateRead(args.usuarios[1].fechaNacimiento, call.ret.birth_date)
        /\ \A n \in 1..Len(args.usuarios[1].medicamentos) :
              DateRead(args.usuarios[1].medicamentos[n], call.ret.administration_dates[n])
        /\ \A n \in 1..Len(args.usuarios[1].otrosServicios) :
              DateRead(args.usuarios[1].otrosServicios[n], call.ret.service_dates[n])

\* ---------------------------------------------------------------------------
\* rips_exporter.py: the six text files of one export
\* ---------------------------------------------------------------------------

RECURSIVE digits_of(_)
\* str(n) of a natural number
digits_of(n) ==
    IF n < 10 THEN <<DigitChars[n + 1]>>
    ELSE digits_of(n \div 10) \o <<DigitChars[(n % 10) + 1]>>

\* a natural number written with width digits at least ("%02d", "%04d")
ZeroPadded(n, width) ==
    LET digits == digits_of(n)
    IN  IF Len(digits) >= width THEN digits
        ELSE [i \in 1..(width - Len(digits)) |-> "0"] \o digits

\* the magnitude unscaled / 10^scale quantized to hundredths, ROUND_HALF_EVEN (the
\* rounding of the default decimal context, which format() uses)
HalfEven(unscaled, scale) ==
    LET unit == Pow10(scale - 2)
        quotient == unscaled \div unit
        remainder == unscaled % unit
    IN  IF scale <= 2 THEN unscaled * Pow10(2 - scale)
        ELSE IF 2 * remainder > unit \/ (2 * remainder = unit /\ quotient % 2 = 1)
        THEN quotient + 1
        ELSE quotient

\* f"{value:.2f}" of a Decimal
_format_decimal(value) ==
    LET negative == value.unscaled < 0
        magnitude == IF negative THEN 0 - value.unscaled ELSE value.unscaled
        hundredths == HalfEven(magnitude, value.scale)
    IN  (IF negative THEN <<"-">> ELSE <<>>)
            \o digits_of(hundredths \div 100) \o <<".">> \o ZeroPadded(hundredths % 100, 2)

\* date.strftime("%Y-%m-%d")
strftime(date) ==
    ZeroPadded(date[1], 4) \o <<"-">> \o ZeroPadded(date[2], 2) \o <<"-">>
        \o ZeroPadded(date[3], 2)

\* _format_value of a cell of a row: the six formatters leave None and str only in
\* their rows, and str(value) of a str is the value
_format_value(value) == value

_af_row(record) ==
    <<record.provider_code,
      record.invoice_number,
      strftime(record.invoice_date),
      _format_decimal(record.total_value),
      record.document_type,
      record.document_number,
      record.contract_number,
      record.policy_number,
      _format_decimal(record.copayment_value),
      _format_decimal(record.commission_value),
      _format_decimal(record.discount_value)>>

\* age is <<>> for None, <<n>> for the int n
_us_row(record) ==
    <<record.document_type,
      record.document_number,
      record.last_name,
      record.second_last_name,
      record.first_name,
      record.second_name,
      IF record.age # <<>> THEN digits_of(record.age[1]) ELSE None,
      record.age_unit,
      record.gender,
      record.department_code,
      record.municipality_code,
      record.residence_area>>

_ap_row(record) ==
    <<record.provider_code,
      record.invoice_number,
      record.document_type,
      record.document_number,
      strftime(record.service_date),
      record.authorization_number,
      record.service_code,
      record.cups_code,
      record.diagnosis_code,
      record.diagnosis_related,
      record.service_purpose_code,
      record.attention_type_code,
      _format_decimal(record.copayment_value),
      _format_decimal(record.net_value),
      record.modality_code>>

_ac_row(record) ==
    <<record.provider_code,
      record.invoice_number,
      record.document_type,
      record.document_number,
      strftime(record.consultation_date),
      record.authorization_number,
      record.consultation_code,
      record.consultation_purpose,
      record.external_cause,
      record.principal_diagnosis,
      record.related_diagnosis1,
      record.related_diagnosis2,
      record.related_diagnosis3,
      record.diagnosis_type,
      _format_decimal(record.consultation_value),
      _format_decimal(record.copayment_value),
      _format_decimal(record.net_value)>>

\* treatment_days is <<>> for None, <<n>> for the int n; administration_date is None
\* or a date
_am_row(record) ==
    <<record.provider_code,
      record.invoice_number,
      record.document_type,
      record.document_number,
      record.authorization_number,
      record.medication_code,
      record.mipres_id,
      record.medication_type,
      record.medication_name,
      record.pharmaceutical_form,
      record.concentration,
      record.unit_measure,
      IF record.treatment_days # <<>> THEN digits_of(record.treatment_days[1]) ELSE None,
      _format_decimal(record.quantity),
      _format_decimal(record.unit_value),
      _format_decimal(record.total_value),
      record.principal_diagnosis,
      record.related_diagnosis,
      IF record.administration_date # None THEN strftime(record.administration_date)
      ELSE None>>

_at_row(record) ==
    <<record.provider_code,
      record.invoice_number,
      record.document_type,
      record.document_number,
      record.authorization_number,
      record.service_type,
      record.service_code,
      record.service_name,
      IF record.service_date # None THEN strftime(record.service_date) ELSE None,
      _format_decimal(record.quantity),
      _format_decimal(record.unit_value),
      _format_decimal(record.total_value),
      record.mipres_id,
      record.principal_diagnosis,
      record.related_diagnosis>>

RECURSIVE Join(_, _)
\* delimiter.join(row)
Join(row, delimiter) ==
    IF row = <<>> THEN <<>>
    ELSE IF Len(row) = 1 THEN row[1]
    ELSE row[1] \o <<delimiter>> \o Join(Tail(row), delimiter)

\* the line of one record: None cells written as "", the others through _format_value
line_of(row, delimiter) ==
    Join([i \in 1..Len(row) |-> IF row[i] = None THEN <<>> ELSE _format_value(row[i])],
         delimiter)

\* formatter(record), the formatter one of the six row functions, given by its name
formatted(formatter, record) ==
    CASE formatter = "_af_row" -> _af_row(record)
      [] formatter = "_us_row" -> _us_row(record)
      [] formatter = "_ap_row" -> _ap_row(record)
      [] formatter = "_ac_row" -> _ac_row(record)
      [] formatter = "_am_row" -> _am_row(record)
      [] formatter = "_at_row" -> _at_row(record)

\* _write_file on a path whose content is file (None when there is no such file):
\* the content of the path afterwards
_write_file(file, records, formatter, delimiter) ==
    IF records = <<>> THEN file
    ELSE JoinLines([i \in 1..Len(records) |->
                        line_of(formatted(formatter, records[i]), delimiter)])
            \o <<Newline>>

\* write_rips_files on an output directory (the content of its six files): the
\* directory afterwards; an element of us_records is <<>> for None, <<record>> for a
\* record
write_rips_files(output_dir, af_records, us_records, ap_records, ac_records, am_records, at_records, delimiter) ==
    LET users == SelectSeq(us_records, LAMBDA r : r # <<>>)
    IN  [AF |-> _write_file(output_dir.AF, af_records, "_af_row", delimiter),
         US |-> _write_file(output_dir.US, [i \in 1..Len(users) |-> users[i][1]],
                            "_us_row", delimiter),
         AP |-> _write_file(output_dir.AP, ap_records, "_ap_row", delimiter),
         AC |-> _write_file(output_dir.AC, ac_records, "_ac_row", delimiter),
         AM |-> _write_file(output_dir.AM, am_records, "_am_row", delimiter),
         AT |-> _write_file(output_dir.AT, at_records, "_at_row", delimiter)]

Provider900 == <<"9", "0", "0">>

InvoiceF1 == <<"F", "1">>

Ruiz == <<"R", "U", "I", "Z">>

\* a medication name with the delimiter in it
NameWithComma == <<"A", "S", "A", ",", " ", "1", "0", "0">>

NameASA == <<"A", "S", "A">>

Exported_AF ==
    [provider_code |-> Provider900, provider_name |-> None, invoice_number |-> InvoiceF1,
     invoice_date |-> IssueDate, total_value |-> Dec(12050, 2),
     document_type |-> CC, document_number |-> Doc1234,
     contract_number |-> None, policy_number |-> None,
     copayment_value |-> Dec(0, 0), commission_value |-> Dec(0, 0),
     discount_value |-> Dec(0, 0)]

Exported_US ==
    [document_type |-> CC, document_number |-> Doc1234, last_name |-> Ruiz,
     second_last_name |-> None, first_name |-> Ana, second_name |-> None,
     age |-> <<34>>, age_unit |-> <<"A">>, gender |-> <<"F">>,
     department_code |-> <<"1", "1">>, municipality_code |-> <<"1", "1", "0", "0", "1">>,
     residence_area |-> <<"U">>]

\* a user without annex: every optional field absent
Exported_US_bare ==
    [document_type |-> CC, document_number |-> Doc77, last_name |-> None,
     second_last_name |-> None, first_name |-> None, second_name |-> None,
     age |-> <<>>, age_unit |-> None, gender |-> None,
     department_code |-> None, municipality_code |-> None, residence_area |-> None]

Exported_AP ==
    [provider_code |-> Provider900, invoice_number |-> InvoiceF1,
     document_type |-> CC, document_number |-> Doc1234, service_date |-> IssueDate,
     authorization_number |-> None, service_code |-> <<"1">>, cups_code |-> Cups890201,
     diagnosis_code |-> A09, diagnosis_related |-> None,
     service_purpose_code |-> <<"0", "1">>, attention_type_code |-> <<"0", "2">>,
     copayment_value |-> Dec(0, 0), net_value |-> Dec(5000000, 2),
     modality_code |-> None]

Exported_AC ==
    [provider_code |-> Provider900, invoice_number |-> InvoiceF1,
     document_type |-> CC, document_number |-> Doc1234,
     consultation_date |-> Date(2020, 6, 5, 8), authorization_number |-> None,
     consultation_code |-> Cups890301, consultation_purpose |-> None,
     external_cause |-> None, principal_diagnosis |-> A09,
     related_diagnosis1 |-> None, related_diagnosis2 |-> None,
     related_diagnosis3 |-> None, diagnosis_type |-> <<"1">>,
     consultation_value |-> Dec(7050, 2), copayment_value |-> Dec(0, 0),
     net_value |-> Dec(7050, 2)]

Exported_AM ==
    [provider_code |-> Provider900, invoice_number |-> InvoiceF1,
     document_type |-> CC, document_number |-> Doc1234,
     authorization_number |-> None, medication_code |-> <<"M", "1">>,
     mipres_id |-> None, medication_type |-> <<"0", "1">>,
     medication_name |-> NameASA, pharmaceutical_form |-> None,
     concentration |-> None, unit_measure |-> None, treatment_days |-> <<5>>,
     quantity |-> Dec(2, 0), unit_value |-> Dec(125, 1), total_value |-> Dec(25, 0),
     principal_diagnosis |-> A09, related_diagnosis |-> None,
     administration_date |-> Date(2020, 6, 15, 0)]

\* a medication whose name holds a comma, a quantity of three decimals (0.125, a tie
\* to the even hundredth) and a unit value of three decimals (0.135, a tie to the
\* odd one's successor)
Exported_AM_comma ==
    [Exported_AM EXCEPT !.medication_code = <<"M", "2">>,
                        !.medication_name = NameWithComma,
                        !.treatment_days = <<>>,
                        !.quantity = Dec(125, 3),
                        !.unit_value = Dec(135, 3),
                        !.total_value = Dec(1999, 3),
                        !.administration_date = None]

Exported_AT ==
    [provider_code |-> Provider900, invoice_number |-> InvoiceF1,
     document_type |-> CC, document_number |-> Doc1234,
     authorization_number |-> None, service_type |-> <<"0", "1">>,
     service_code |-> <<"S", "1">>, service_name |-> None, service_date |-> None,
     quantity |-> Dec(1, 0), unit_value |-> Dec(300, 2), total_value |-> Dec(3, 0),
     mipres_id |-> None, principal_diagnosis |-> A09, related_diagnosis |-> None]

SampleInvoiceSets == {<<>>, <<Exported_AF>>}

\* an element is <<>> for None, <<record>> for a record
SampleUserSets == {<<>>, <<<<Exported_US>>>>, <<<<>>, <<Exported_US_bare>>>>}

SampleProcedureSets == {<<>>, <<Exported_AP>>}

SampleConsultationSets == {<<>>, <<Exported_AC>>}

SampleMedicationSets == {<<>>, <<Exported_AM>>, <<Exported_AM_comma, Exported_AM>>}

SampleOtherServiceSets == {<<>>, <<Exported_AT>>}

\* the default of the delimiter parameter, the one generate_rips.py exports with
DefaultDelimiter == ","

\* an output directory that was just created: none of the six files is there
EmptyDirectory ==
    [AF |-> None, US |-> None, AP |-> None, AC |-> None, AM |-> None, AT |-> None]

InitExport ==
    /\ self = EmptyDirectory
    /\ call = NoCall
    /\ first = FALSE
    /\ args = <<>>
    /\ messages = <<>>
    /\ tables = <<>>

\* one run of generate_rips.py with --output-dir: write_rips_files into the output
\* directory, which batch_generate_rips.py makes once per invoice and reuses as it is
WriteRipsFiles ==
    \E af_records \in SampleInvoiceSets, us_records \in SampleUserSets,
       ap_records \in SampleProcedureSets, ac_records \in SampleConsultationSets,
       am_records \in SampleMedicationSets, at_records \in SampleOtherServiceSets :
        /\ self' = write_rips_files(self, af_records, us_records, ap_records,
                                    ac_records, am_records, at_records, DefaultDelimiter)
        /\ args' = [af_records |-> af_records, us_records |-> us_records,
                    ap_records |-> ap_records, ac_records |-> ac_records,
                    am_records |-> am_records, at_records |-> at_records,
                    delimiter |-> DefaultDelimiter]
        /\ call' = [op |-> "write_rips_files", ret |-> None, raised |-> "none",
                    memo |-> NoMemo]
        /\ UNCHANGED <<first, messages, tables>>

NextExport == WriteRipsFiles

SpecExport == InitExport /\ [][NextExport]_vars

FileTypes == {"AF", "US", "AP", "AC", "AM", "AT"}

\* the records of one type passed in the most recent call (of the users, the ones
\* that are not None)
Exported(type) ==
    CASE type = "AF" -> args.af_records
      [] type = "US" ->
            LET users == SelectSeq(args.us_records, LAMBDA r : r # <<>>)
            IN  [i \in 1..Len(users) |-> users[i][1]]
      [] type = "AP" -> args.ap_records
      [] type = "AC" -> args.ac_records
      [] type = "AM" -> args.am_records
      [] type = "AT" -> args.at_records

\* the row of a record of one type, before it is joined
RowOf(type, record) ==
    CASE type = "AF" -> _af_row(record)
      [] type = "US" -> _us_row(record)
      [] type = "AP" -> _ap_row(record)
      [] type = "AC" -> _ac_row(record)
      [] type = "AM" -> _am_row(record)
      [] type = "AT" -> _at_row(record)

\* the decimal fields of a record of one type, each with its position in the row
Amounts(type, record) ==
    CASE type = "AF" -> {<<4, record.total_value>>, <<9, record.copayment_value>>,
                         <<10, record.commission_value>>, <<11, record.discount_value>>}
      [] type = "US" -> {}
      [] type = "AP" -> {<<13, record.copayment_value>>, <<14, record.net_value>>}
      [] type = "AC" -> {<<15, record.consultation_value>>, <<16, record.copayment_value>>,
                         <<17, record.net_value>>}
      [] type = "AM" -> {<<14, record.quantity>>, <<15, record.unit_value>>,
                         <<16, record.total_value>>}
      [] type = "AT" -> {<<10, record.quantity>>, <<11, record.unit_value>>,
                         <<12, record.total_value>>}

\* t.split(separator), the empty pieces kept
Pieces(t, separator) ==
    LET ends == {i \in 1..Len(t) : t[i] = separator} \cup {Len(t) + 1}
        end_of(k) == CHOOSE e \in ends : Cardinality({x \in ends : x < e}) = k - 1
    IN  [k \in 1..Cardinality(ends) |->
            SubSeq(t, IF k = 1 THEN 1 ELSE end_of(k - 1) + 1, end_of(k) - 1)]

\* the rows a file holds: its lines, none when there is no file
RowsOnDisk(file) ==
    IF file = None THEN <<>>
    ELSE LET pieces == Pieces(file, Newline)
         IN  SubSeq(pieces, 1, Len(pieces) - 1)

\* a decimal value rounded to two decimals
Rounded(value) ==
    IF value.unscaled < 0 THEN Dec(0 - HalfEven(0 - value.unscaled, value.scale), 2)
    ELSE Dec(HalfEven(value.unscaled, value.scale), 2)

\* a number written with two fractional digits exactly
TwoFractionalDigits(t) ==
    /\ Len(t) >= 4
    /\ t[Len(t) - 2] = "."
    /\ IsDecimalLiteral(t)

\* the n-th row of a file read back: split on the delimiter, every decimal field at
\* its position is the value of the record rounded, written with two fractional
\* digits, and every absent field at its position is the empty string
ReadBack(type, n) ==
    LET record == Exported(type)[n]
        rows == RowsOnDisk(self[type])
        fields == Pieces(rows[n], args.delimiter)
        row == RowOf(type, record)
    IN  /\ n <= Len(rows)
        /\ \A amount \in Amounts(type, record) :
              /\ amount[1] <= Len(fields)
              /\ TwoFractionalDigits(fields[amount[1]])
              /\ DecEq(DecimalOf(fields[amount[1]]), Rounded(amount[2]))
        /\ \A p \in 1..Len(row) :
              row[p] = None => p <= Len(fields) /\ fields[p] = <<>>

\* C27: after an export, every row of every file, split on the delimiter, gives back
\* at the fixed positions each decimal field of its record rounded to two decimals
\* and written with two fractional digits, and the empty string for each absent
\* optional field, whatever the text fields of the record hold.
C27_RoundTrip ==
    call.op = "write_rips_files" =>
        \A type \in FileTypes : \A n \in 1..Len(Exported(type)) : ReadBack(type, n)

\* the lines the records of one type passed in the most recent call are written as
RowsOfCall(type) ==
    [n \in 1..Len(Exported(type)) |-> line_of(RowOf(type, Exported(type)[n]), args.delimiter)]

\* C28: after any sequence of exports into one output directory, each of the six
\* files holds one row per record of the set passed in the most recent call, in
\* order, and no row when that set is empty.
C28_FilesReflectLastCall ==
    call.op = "write_rips_files" =>
        \A type \in FileTypes : RowsOnDisk(self[type]) = RowsOfCall(type)

====
